---- MODULE Spec2Model ----
(***************************************************************************)
(* Incremental WebDAV synchronisation: the persistent index stores          *)
(* (FileIndexStore, DirMtimeStore, SyncProgressStore), the remote delta     *)
(* detector (RemoteDeltaDetectorService) and the driver                     *)
(* (IncrementalWebDAVFileSystem.walk / clearIndex / rebuildIndex), run      *)
(* against a WebDAV server that holds a small tree.                         *)
(*                                                                         *)
(* Paths are sequences of segments: <<"base","a","x">> is /base/a/x.        *)
(* Wall-clock fields of the records (lastSynced, lastChecked, sessionId,    *)
(* startTime) carry Date.now() and no decision reads them; they are left    *)
(* out of the records.                                                      *)
(***************************************************************************)
EXTENDS Naturals, Sequences, FiniteSets, TLC

\* ------------------------------------------------------------------ bounds

\* The server's clock stops here: at most MaxClock - 1 mutations in a run.
MaxClock == 3
\* File sizes range over 1..MaxSize.
MaxSize == 2
\* At most MaxFailures PROPFINDs of one detectChanges call fail.
MaxFailures == 1

\* ------------------------------------------------------------------- paths

\* options.remoteBaseDir
Base == <<"base">>

\* The paths strictly under remoteBaseDir the server may hold.
Paths == { <<"base", "a">>, <<"base", "b">>, <<"base", "a", "x">> }

AllPaths == Paths \cup {Base}

\* path-browserify dirname
Dirname(p) == SubSeq(p, 1, Len(p) - 1)

IsUnder(p, d) == Len(p) > Len(d) /\ SubSeq(p, 1, Len(d)) = d

IsChildOf(p, d) == Len(p) = Len(d) + 1 /\ Dirname(p) = d

\* The directories above p, up to and including remoteBaseDir.
Ancestors(p) == { d \in AllPaths : IsUnder(p, d) }

\* ------------------------------------------------------------------ server

VARIABLES
    remote,       \* the server's tree: AllPaths -> node
    clock,        \* the server's clock (mtimes are stamped from it)
    fileIndex,    \* FileIndexStore: Paths -> FileIndexEntry or NoEntry
    dirMtime,     \* DirMtimeStore: AllPaths -> DirMtimeEntry or NoEntry
    progress,     \* SyncProgressStore: the record under 'current', or NoEntry
    pc,           \* where the running operation of the driver stands
    op,           \* the running operation: "none", "walk", "rebuild"
    mode,         \* the path walk() took: "none", "full", "quiet", "incr"
    changes,      \* deltaResult.changes of the running walk()
    changedDirs,  \* the detector's changedDirs list
    calls,        \* the PROPFINDs the running operation has issued: <<site, path>>
    scanQueue,    \* fullScan: directories whose scanDirRecursive call is pending
    scanMtimes,   \* fullScan: the dirMtimes array
    muts,         \* the remote mutations since the last walk() began
    prevWalk,     \* the last operation to complete was a walk()
    quiet,        \* the running walk() began right after a walk(), remote unchanged
    inSync,       \* when the last operation returned, the index matched the server
    strays,       \* scanDirRecursive calls still running after their fullScan rejected
    fails,        \* the PROPFINDs that failed in the running walk(), by call site
    pending,      \* what the walk() begun on this server state is to leave in the index
    fan,          \* the recursive calls of one detectChanges / fullScan over a wide tree
    batch,        \* the record writes of one batchSet / batchDelete call of a store
    wide,         \* one scanDirForChanges call on a directory of many children
    tab,          \* the settings tab: the button whose handler is running, or NoClick
    pager         \* one getDirectoryContents call on a directory answered in pages

vars == << remote, clock, fileIndex, dirMtime, progress, pc, op, mode, changes,
           changedDirs, calls, scanQueue, scanMtimes, muts, prevWalk, quiet,
           inSync, strays, fails, pending, fan, batch, wide, tab, pager >>

NoNode == [kind |-> "none"]

DirNode(t) == [kind |-> "dir", mtime |-> t, size |-> 0]

FileNode(t, s) == [kind |-> "file", mtime |-> t, size |-> s]

Exists(R, p) == R[p].kind # "none"

IsDirAt(R, p) == R[p].kind = "dir"

\* A tree: the base is a directory, and whatever exists sits in a directory.
WellFormed(R) ==
    /\ IsDirAt(R, Base)
    /\ \A p \in Paths : Exists(R, p) => IsDirAt(R, Dirname(p))

ChildrenOf(R, d) == { c \in Paths : IsChildOf(c, d) /\ Exists(R, c) }

Sizes == 1..MaxSize

\* The directories whose mtime one mutation of p advances: p's parent always
\* (when touchParent), and with it either nothing more or every ancestor.
TouchSets(p, mustTouchParent) ==
    { {Dirname(p)}, Ancestors(p) } \cup (IF mustTouchParent THEN {} ELSE {{}})

Stamp(R, dirs, t) ==
    [q \in AllPaths |-> IF q \in dirs THEN [R[q] EXCEPT !.mtime = t] ELSE R[q]]

NoEntry == [kind |-> "none"]

\* ------------------------------------------------------- WebDAV PROPFIND

\* parsePropfindResponse: one StatModel per <response>
StatModel(R, p) ==
    [path |-> p, isDir |-> IsDirAt(R, p), mtime |-> R[p].mtime, size |-> R[p].size]

\* propfind(path, depth) on a path the server holds; a path it does not hold
\* answers 404, which requestUrl throws.
Propfind(R, p, depth) ==
    {StatModel(R, p)} \cup
        (IF depth = 1 /\ IsDirAt(R, p)
            THEN { StatModel(R, c) : c \in ChildrenOf(R, p) }
            ELSE {})

PropfindThrows(R, p, failing) == p \in failing \/ ~Exists(R, p)

\* --------------------------------------------------------- index stores

\* FileIndexEntry, as fullScan and updateFileIndex build it from a StatModel
FileIndexEntry(stat) ==
    [kind |-> "entry", path |-> stat.path, isDir |-> stat.isDir,
     mtime |-> stat.mtime, size |-> IF stat.isDir THEN 0 ELSE stat.size,
     parentPath |-> Dirname(stat.path)]

DirMtimeEntry(p, t, n) == [kind |-> "entry", path |-> p, mtime |-> t, childCount |-> n]

EmptyFileIndex == [p \in Paths |-> NoEntry]

EmptyDirMtime == [p \in AllPaths |-> NoEntry]

\* FileIndexStore.count
Count(idx) == Cardinality({ p \in Paths : idx[p] # NoEntry })

\* FileIndexStore.batchSet: setItem(entry.path, entry) for every entry
BatchSet(idx, entries) ==
    [p \in Paths |->
        IF \E e \in entries : e.path = p
            THEN CHOOSE e \in entries : e.path = p
            ELSE idx[p]]

\* FileIndexStore.batchDelete: removeItem(path) for every path
BatchDelete(idx, paths) == [p \in Paths |-> IF p \in paths THEN NoEntry ELSE idx[p]]

\* The default page of getByParent.
GetByParentLimit == 1000

\* FileIndexStore.getByParent(parentPath) with the default offset 0 and limit:
\* the entries whose parentPath field is parentPath, at most the first
\* GetByParentLimit of them in the store's iteration order.
GetByParent(idx, parentPath) ==
    LET all == { idx[p] : p \in { q \in Paths : idx[q] # NoEntry /\ idx[q].parentPath = parentPath } }
    IN  IF Cardinality(all) <= GetByParentLimit
            THEN all
            ELSE CHOOSE S \in SUBSET all : Cardinality(S) = GetByParentLimit

\* FileIndexStore.getAllDirs
GetAllDirs(idx) == { p \in Paths : idx[p] # NoEntry /\ idx[p].isDir }

\* DirMtimeStore.getAll: the map of the cached directories
CachedDirs(dm) == { d \in AllPaths : dm[d] # NoEntry }

\* SyncProgress as fullScan saves it
ScanningProgress ==
    [kind |-> "entry", phase |-> "scanning", processedCount |-> 0,
     totalCount |-> 0, currentPath |-> Base]

\* ---------------------------------------------------------- the detector

\* The PROPFINDs that fail with a transport error, by call site, and the
\* class of the error.
NoFailure == [stat |-> {}, sub |-> {}, list |-> {}, restat |-> {}, class |-> "none"]

NoStat == [kind |-> "none"]

\* Mutant: a statDir that returns the record even when its PROPFIND failed.
StatDirIgnoringFailure(R, p, failing) ==
    IF ~Exists(R, p)
        THEN NoStat
        ELSE [kind |-> "stat", mtime |-> R[p].mtime]

\* statDir: null when the PROPFIND throws or returns nothing
StatDir(R, p, failing) ==
    IF PropfindThrows(R, p, failing)
        THEN NoStat
        ELSE LET result == Propfind(R, p, 0)
             IN  IF result = {}
                    THEN NoStat
                    ELSE [kind |-> "stat", mtime |-> (CHOOSE s \in result : s.path = p).mtime]

\* getSubDirs: [] when the PROPFIND throws
GetSubDirs(R, p, failing) ==
    IF PropfindThrows(R, p, failing)
        THEN {}
        ELSE { item.path : item \in { i \in Propfind(R, p, 1) : i.isDir /\ i.path # p } }

\* Mutant: a listDir that returns the listing even when its PROPFIND failed.
ListDirIgnoringFailure(R, p, failing) ==
    IF ~Exists(R, p)
        THEN {}
        ELSE { item \in Propfind(R, p, 1) : item.path # p }

\* listDir: [] when the PROPFIND throws
ListDir(R, p, failing) ==
    IF PropfindThrows(R, p, failing)
        THEN {}
        ELSE { item \in Propfind(R, p, 1) : item.path # p }

\* Mutant: detectDirChanges without the comparison against the cached mtime.
RECURSIVE DetectDirChangesNoPrune(_, _, _, _)
DetectDirChangesNoPrune(dirPath, R, cachedMtimes, F) ==
    LET currentStat == StatDir(R, dirPath, F.stat)
    IN  IF currentStat = NoStat
            THEN [changed |-> {dirPath}, calls |-> {<<"stat", dirPath>>}]
        ELSE LET subDirs == GetSubDirs(R, dirPath, F.sub)
                 below == { DetectDirChangesNoPrune(s, R, cachedMtimes, F) : s \in subDirs }
             IN  [changed |-> {dirPath} \cup UNION { r.changed : r \in below },
                  calls |-> {<<"stat", dirPath>>, <<"subdirs", dirPath>>}
                                \cup UNION { r.calls : r \in below }]

\* detectDirChanges(dirPath, cachedMtimes, changedDirs, onScanned): the
\* directories it pushes on changedDirs and the PROPFINDs it issues.
RECURSIVE DetectDirChanges(_, _, _, _)
DetectDirChanges(dirPath, R, cachedMtimes, F) ==
    LET currentStat == StatDir(R, dirPath, F.stat)
        cached == cachedMtimes[dirPath]
    IN  IF currentStat = NoStat
            THEN [changed |-> {dirPath}, calls |-> {<<"stat", dirPath>>}]
        ELSE IF cached # NoEntry /\ cached.mtime = currentStat.mtime
            THEN [changed |-> {}, calls |-> {<<"stat", dirPath>>}]
        ELSE LET subDirs == GetSubDirs(R, dirPath, F.sub)
                 below == { DetectDirChanges(s, R, cachedMtimes, F) : s \in subDirs }
             IN  [changed |-> {dirPath} \cup UNION { r.changed : r \in below },
                  calls |-> {<<"stat", dirPath>>, <<"subdirs", dirPath>>}
                                \cup UNION { r.calls : r \in below }]

\* Mutant: an isModified that does not compare the sizes.
IsModifiedMtimeOnly(cached, remoteStat) ==
    \/ cached.isDir # remoteStat.isDir
    \/ ~remoteStat.isDir /\ cached.mtime # remoteStat.mtime

\* isModified(cached, remote)
IsModified(cached, remoteStat) ==
    \/ cached.isDir # remoteStat.isDir
    \/ ~remoteStat.isDir /\ cached.mtime # remoteStat.mtime
    \/ ~remoteStat.isDir /\ cached.size # remoteStat.size

Change(p, type, stat) == [path |-> p, type |-> type, stat |-> stat]

\* scanDirForChanges(dirPath): the file-level diff of one directory
ScanDirForChanges(R, idx, dirPath, failing) ==
    LET remoteFiles == ListDir(R, dirPath, failing)
        cachedFiles == GetByParent(idx, dirPath)
        remotePaths == { f.path : f \in remoteFiles }
        cachedPaths == { f.path : f \in cachedFiles }
        CachedAt(p) == CHOOSE f \in cachedFiles : f.path = p
    IN  { Change(f.path, "added", f) : f \in { g \in remoteFiles : g.path \notin cachedPaths } }
        \cup
        { Change(f.path, "modified", f) :
            f \in { g \in remoteFiles : g.path \in cachedPaths /\ IsModified(CachedAt(g.path), g) } }
        \cup
        { Change(p, "deleted", NoStat) : p \in cachedPaths \ remotePaths }

\* detectChanges, once the cache is known not to be empty
DetectChanges(R, idx, dm, F) ==
    LET det == DetectDirChanges(Base, R, dm, F)
    IN  [changes |-> UNION { ScanDirForChanges(R, idx, d, F.list) : d \in det.changed },
         changedDirs |-> det.changed,
         calls |-> det.calls \cup { <<"list", d>> : d \in det.changed }]

\* updateFileIndex(changes): batchSet of the added and modified, then
\* batchDelete of the deleted
UpdateFileIndex(idx, chs) ==
    LET toSet == { FileIndexEntry(c.stat) : c \in { x \in chs : x.type # "deleted" /\ x.stat # NoStat } }
        toDelete == { c.path : c \in { x \in chs : x.type = "deleted" } }
    IN  BatchDelete(BatchSet(idx, toSet), toDelete)

\* updateDirMtimeCache: the parents of the changed paths
AffectedDirs(chs) == { Dirname(c.path) : c \in chs }

\* Mutant: an updateDirMtimeCache that also removes the record of every
\* directory reported deleted.
UpdateDirMtimeCacheDroppingDeleted(R, dm, chs, failing) ==
    [d \in AllPaths |->
        IF d \in AffectedDirs(chs) /\ StatDir(R, d, failing) # NoStat
            THEN DirMtimeEntry(d, StatDir(R, d, failing).mtime, 0)
        ELSE IF \E c \in chs : c.type = "deleted" /\ c.path = d
            THEN NoEntry
            ELSE dm[d]]

\* updateDirMtimeCache(changes): re-stat every affected directory and store
\* the mtime of those whose stat succeeds
UpdateDirMtimeCache(R, dm, chs, failing) ==
    [d \in AllPaths |->
        IF d \in AffectedDirs(chs) /\ StatDir(R, d, failing) # NoStat
            THEN DirMtimeEntry(d, StatDir(R, d, failing).mtime, 0)
            ELSE dm[d]]

\* ------------------------------------------------------------ full scan

\* Mutant: a DirMtimeStore.batchSet that stores nothing.
DirMtimeBatchSetNone(dm, entries) == dm

\* DirMtimeStore.batchSet
DirMtimeBatchSet(dm, entries) ==
    [d \in AllPaths |->
        IF \E e \in entries : e.path = d
            THEN CHOOSE e \in entries : e.path = d
            ELSE dm[d]]

\* Mutant: scanDirRecursive that does not go down into the subdirectories.
ScanDirNoDescent(R, dirPath) ==
    LET contents == Propfind(R, dirPath, 1)
        items == { c \in contents : c.path # dirPath }
    IN  [fileEntries |-> { FileIndexEntry(i) : i \in items },
         dirMtimeEntry |-> DirMtimeEntry(dirPath, R[dirPath].mtime, Cardinality(items)),
         subDirs |-> {}]

\* scanDirRecursive(dirPath, onBatch), up to its recursive calls: the listing
\* of dirPath, the entries onBatch stores, the dirMtimes record it pushes and
\* the subdirectories it goes on to scan.
ScanDirRecursive(R, dirPath) ==
    LET contents == Propfind(R, dirPath, 1)
        dirMtimeOf == IF \E c \in contents : c.path = dirPath
                        THEN (CHOOSE c \in contents : c.path = dirPath).mtime
                        ELSE 0
        items == { c \in contents : c.path # dirPath }
    IN  [fileEntries |-> { FileIndexEntry(i) : i \in items },
         dirMtimeEntry |-> DirMtimeEntry(dirPath, dirMtimeOf, Cardinality(items)),
         subDirs |-> { i.path : i \in { j \in items : j.isDir } }]

\* The file index a full scan of R leaves: every scanDirRecursive batch from
\* remoteBaseDir down, stored into the cleared index.
RECURSIVE FullScanEntries(_, _)
FullScanEntries(R, dirPath) ==
    LET r == ScanDirRecursive(R, dirPath)
    IN  r.fileEntries \cup UNION { FullScanEntries(R, s) : s \in r.subDirs }

FullScanIndex(R) == BatchSet(EmptyFileIndex, FullScanEntries(R, Base))

\* A FileEntry without the mtime of a directory (isModified does not compare it).
FileRecord(e) ==
    IF e = NoEntry
        THEN NoEntry
        ELSE [path |-> e.path, isDir |-> e.isDir, parentPath |-> e.parentPath,
              mtime |-> IF e.isDir THEN 0 ELSE e.mtime, size |-> e.size]

\* The index holds what a fresh full scan of R would store, directory mtimes apart.
MatchesServer(idx, R) ==
    \A p \in Paths : FileRecord(idx[p]) = FileRecord(FullScanIndex(R)[p])

\* traverseWebDAV(token, from, settings): getDirectoryContents(from), which
\* drops the directory itself, and the traversal of every directory in it
RECURSIVE TraverseWebDAV(_, _)
TraverseWebDAV(R, from) ==
    LET contents == { StatModel(R, c) : c \in ChildrenOf(R, from) }
    IN  contents \cup
        UNION { TraverseWebDAV(R, item.path) : item \in { i \in contents : i.isDir } }

\* --------------------------------------------------------------- listing

\* The order in which the store's iterate() visits its keys (ascending keys).
KeyOrder == << <<"base", "a">>, <<"base", "a", "x">>, <<"base", "b">> >>

\* The keys of the store, in that order.
Keys(idx) == SelectSeq(KeyOrder, LAMBDA p : idx[p] # NoEntry)

\* db.iterate(iterator): the iterator is called on one key after the other,
\* and the iteration ends with the first call that returns something other
\* than undefined (returning the keys on which the iterator does so). The
\* keys visited.
Iterate(keys, returning) ==
    LET stops == { i \in 1..Len(keys) : keys[i] \in returning }
    IN  IF stops = {}
            THEN keys
            ELSE SubSeq(keys, 1, CHOOSE i \in stops : \A j \in stops : i <= j)

\* FileIndexStore.iterateAll(callback): the iterator handed to db.iterate is
\* an async function, so every call of it returns a Promise. The keys on
\* which callback is invoked.
IterateAll(idx) == Iterate(Keys(idx), Paths)

\* getFromIndex with no filter rule configured: the entries iterateAll hands
\* to the callback that lie under remoteBaseDir, their paths made relative.
GetFromIndex(idx) ==
    { [path |-> SubSeq(idx[p].path, Len(Base) + 1, Len(idx[p].path)),
       isDir |-> idx[p].isDir, mtime |-> idx[p].mtime, size |-> idx[p].size] :
        p \in { q \in Paths : /\ \E i \in 1..Len(IterateAll(idx)) : IterateAll(idx)[i] = q
                              /\ IsUnder(idx[q].path, Base) } }

\* RemoteDeltaDetectorService.getStats
DetectorGetStats(idx) ==
    [fileCount |-> Count(idx) - Cardinality(GetAllDirs(idx)),
     dirCount |-> Cardinality(GetAllDirs(idx))]

\* IncrementalWebDAVFileSystem.getStats
GetStats(idx) ==
    IF Count(idx) = 0
        THEN [fileCount |-> 0, dirCount |-> 0, hasIndex |-> FALSE]
        ELSE [fileCount |-> DetectorGetStats(idx).fileCount,
              dirCount |-> DetectorGetStats(idx).dirCount,
              hasIndex |-> TRUE]

\* ----------------------------------------------------------------- Init

\* No walk() is being followed.
NoPending == [kind |-> "none"]

\* No wide tree is being scanned.
NoFan == [kind |-> "none"]

\* No batch is being written.
NoBatch == [kind |-> "none"]

\* No directory of many children is being compared.
NoWide == [kind |-> "none"]

\* No handler of the settings tab is running.
NoClick == "none"

\* No paginated listing is being read.
NoPager == [kind |-> "none"]

InitRemotes ==
    { R \in [AllPaths -> {NoNode, DirNode(1), FileNode(1, 1)}] : WellFormed(R) }

Init ==
    /\ remote \in InitRemotes
    /\ clock = 1
    /\ fileIndex = EmptyFileIndex
    /\ dirMtime = EmptyDirMtime
    /\ progress = NoEntry
    /\ pc = "idle"
    /\ op = "none"
    /\ mode = "none"
    /\ changes = {}
    /\ changedDirs = {}
    /\ calls = {}
    /\ scanQueue = {}
    /\ scanMtimes = {}
    /\ muts = << >>
    /\ prevWalk = FALSE
    /\ quiet = FALSE
    /\ inSync = FALSE
    /\ strays = {}
    /\ fails = NoFailure
    /\ pending = NoPending
    /\ fan = NoFan
    /\ batch = NoBatch
    /\ wide = NoWide
    /\ tab = NoClick
    /\ pager = NoPager

\* ------------------------------------------------- the server's mutations

driverVars == << fileIndex, dirMtime, progress, pc, op, mode, changes, changedDirs,
                 calls, scanQueue, scanMtimes, prevWalk, quiet, inSync, strays, fails, pending, fan, batch, wide, tab, pager >>

\* The indexed paths a removal of p takes off the server.
GoneWith(p) ==
    { q \in Paths : (q = p \/ IsUnder(q, p)) /\ Exists(remote, q) /\ fileIndex[q] # NoEntry }

\* One entry of the log of mutations: what was done to p, whether p was a
\* directory, the indexed paths it took off the server, and the directories
\* whose mtime the server advanced.
Mutation(kind, p, wasDir, gone, touched) ==
    [kind |-> kind, path |-> p, wasDir |-> wasDir, gone |-> gone, touched |-> touched]

\* A file is created at p; the server advances the mtime of p's parent.
AddFile(p, s, touched) ==
    /\ clock < MaxClock
    /\ ~Exists(remote, p)
    /\ IsDirAt(remote, Dirname(p))
    /\ clock' = clock + 1
    /\ remote' = Stamp([remote EXCEPT ![p] = FileNode(clock + 1, s)], touched, clock + 1)
    /\ muts' = Append(muts, Mutation("add", p, FALSE, {}, touched))
    /\ UNCHANGED driverVars

\* A directory is created at p.
AddDir(p, touched) ==
    /\ clock < MaxClock
    /\ ~Exists(remote, p)
    /\ IsDirAt(remote, Dirname(p))
    /\ clock' = clock + 1
    /\ remote' = Stamp([remote EXCEPT ![p] = DirNode(clock + 1)], touched, clock + 1)
    /\ muts' = Append(muts, Mutation("add", p, FALSE, {}, touched))
    /\ UNCHANGED driverVars

\* p is removed, with everything under it.
Delete(p, touched) ==
    /\ clock < MaxClock
    /\ Exists(remote, p)
    /\ clock' = clock + 1
    /\ remote' = Stamp([q \in AllPaths |->
                            IF q = p \/ IsUnder(q, p) THEN NoNode ELSE remote[q]],
                       touched, clock + 1)
    /\ muts' = Append(muts, Mutation("delete", p, IsDirAt(remote, p), GoneWith(p), touched))
    /\ UNCHANGED driverVars

\* The file at p is rewritten: a new mtime, a new size, or both. The server
\* may or may not advance the mtime of the directory that holds it.
ModifyFile(p, s, newer, touched) ==
    /\ clock < MaxClock
    /\ remote[p].kind = "file"
    /\ newer \/ s # remote[p].size
    /\ clock' = clock + 1
    /\ remote' = Stamp([remote EXCEPT ![p] =
                            FileNode(IF newer THEN clock + 1 ELSE remote[p].mtime, s)],
                       touched, clock + 1)
    /\ muts' = Append(muts, Mutation("modify", p, FALSE, {}, touched))
    /\ UNCHANGED driverVars

Mutate ==
    \E p \in Paths :
        \/ \E s \in Sizes, touched \in TouchSets(p, TRUE) : AddFile(p, s, touched)
        \/ \E touched \in TouchSets(p, TRUE) : AddDir(p, touched)
        \/ \E touched \in TouchSets(p, TRUE) : Delete(p, touched)
        \/ \E s \in Sizes, newer \in BOOLEAN, touched \in TouchSets(p, FALSE) :
                ModifyFile(p, s, newer, touched)

\* ------------------------------------------------------------ the driver

serverVars == << remote, clock >>

\* Mutant: the first-sync test off by one.
IsFirstSyncOffByOne(idx) == Count(idx) <= 1

\* walk(): indexCount === 0, the first-sync test
IsFirstSync(idx) == Count(idx) = 0

\* Mutant: a walk() that restarts the full scan whenever it finds a progress
\* record.
WalkStartCoreResuming ==
    /\ pc = "idle"
    /\ op' = "walk"
    /\ quiet' = (prevWalk /\ muts = << >>)
    /\ IF IsFirstSync(fileIndex) \/ progress # NoEntry
            THEN pc' = "fs_save" /\ mode' = "full"
            ELSE pc' = "detect" /\ mode' = "none"
    /\ UNCHANGED << serverVars, fileIndex, dirMtime, progress, changes, changedDirs,
                    calls, scanQueue, scanMtimes, muts, prevWalk, inSync, strays, fails, fan, batch, wide, tab, pager >>

\* walk(), up to the choice between the full scan and the detector
WalkStartCore ==
    /\ pc = "idle"
    /\ op' = "walk"
    /\ quiet' = (prevWalk /\ muts = << >>)
    /\ IF IsFirstSync(fileIndex)
            THEN pc' = "fs_save" /\ mode' = "full"
            ELSE pc' = "detect" /\ mode' = "none"
    /\ UNCHANGED << serverVars, fileIndex, dirMtime, progress, changes, changedDirs,
                    calls, scanQueue, scanMtimes, muts, prevWalk, inSync, strays, fails, fan, batch, wide, tab, pager >>

WalkStart == WalkStartCore /\ UNCHANGED pending

\* Mutant: a detector that never asks for a full scan.
NeedFullScanNever(dm) == FALSE

\* Mutant: a detector that always asks for a full scan.
NeedFullScanAlways(dm) == TRUE

\* detectChanges: cachedDirMtimes.size === 0, the needFullScan result
NeedFullScan(dm) == CachedDirs(dm) = {}

\* Mutant: a detectChanges that stores the mtime of the directories it found
\* changed while it detects.
DetectAndRefresh(F) ==
    /\ pc = "detect"
    /\ ~NeedFullScan(dirMtime)
    /\ LET r == DetectChanges(remote, fileIndex, dirMtime, F)
       IN  /\ changes' = r.changes
           /\ changedDirs' = r.changedDirs
           /\ calls' = r.calls
           /\ dirMtime' = [d \in AllPaths |->
                              IF d \in r.changedDirs /\ Exists(remote, d)
                                  THEN DirMtimeEntry(d, remote[d].mtime, 0)
                                  ELSE dirMtime[d]]
           /\ IF r.changes = {}
                  THEN pc' = "list" /\ mode' = "quiet"
                  ELSE pc' = "apply_index" /\ mode' = "incr"
    /\ fails' = F
    /\ UNCHANGED << serverVars, fileIndex, progress, op, scanQueue,
                    scanMtimes, muts, prevWalk, quiet, inSync, strays, pending, fan, batch, wide, tab, pager >>

\* walk(): detectChanges() and the branch on its result
Detect(F) ==
    /\ pc = "detect"
    /\ IF NeedFullScan(dirMtime)
            THEN /\ pc' = "fs_save"
                 /\ mode' = "full"
                 /\ UNCHANGED << changes, changedDirs, calls >>
            ELSE LET r == DetectChanges(remote, fileIndex, dirMtime, F)
                 IN  /\ changes' = r.changes
                     /\ changedDirs' = r.changedDirs
                     /\ calls' = r.calls
                     /\ IF r.changes = {}
                            THEN pc' = "list" /\ mode' = "quiet"
                            ELSE pc' = "apply_index" /\ mode' = "incr"
    /\ fails' = F
    /\ UNCHANGED << serverVars, fileIndex, dirMtime, progress, op, scanQueue,
                    scanMtimes, muts, prevWalk, quiet, inSync, strays, pending, fan, batch, wide, tab, pager >>

DetectStep == Detect(NoFailure)

\* applyChanges: updateFileIndex(changes)
ApplyFileIndex ==
    /\ pc = "apply_index"
    /\ fileIndex' = UpdateFileIndex(fileIndex, changes)
    /\ pc' = "apply_dirm"
    /\ UNCHANGED << serverVars, dirMtime, progress, op, mode, changes, changedDirs,
                    calls, scanQueue, scanMtimes, muts, prevWalk, quiet, inSync, strays, fails, pending, fan, batch, wide, tab, pager >>

\* applyChanges: updateDirMtimeCache(changes)
ApplyDirMtime(failing) ==
    /\ pc = "apply_dirm"
    /\ dirMtime' = UpdateDirMtimeCache(remote, dirMtime, changes, failing)
    /\ calls' = calls \cup { <<"restat", d>> : d \in AffectedDirs(changes) }
    /\ fails' = [fails EXCEPT !.restat = failing]
    /\ pc' = "list"
    /\ UNCHANGED << serverVars, fileIndex, progress, op, mode, changes, changedDirs,
                    scanQueue, scanMtimes, muts, prevWalk, quiet, inSync, strays, pending, fan, batch, wide, tab, pager >>

ApplyDirMtimeStep == ApplyDirMtime({})

\* fullScan of the driver: progressStore.save
FullScanSave ==
    /\ pc = "fs_save"
    /\ progress' = ScanningProgress
    /\ pc' = "fs_clear_index"
    /\ UNCHANGED << serverVars, fileIndex, dirMtime, op, mode, changes, changedDirs,
                    calls, scanQueue, scanMtimes, muts, prevWalk, quiet, inSync, strays, fails, pending, fan, batch, wide, tab, pager >>

\* Mutant: a fullScan that does not clear the file index.
FullScanKeepIndex ==
    /\ pc = "fs_clear_index"
    /\ pc' = "fs_clear_dirm"
    /\ UNCHANGED << serverVars, fileIndex, dirMtime, progress, op, mode, changes, changedDirs,
                    calls, scanQueue, scanMtimes, muts, prevWalk, quiet, inSync, strays, fails, pending, fan, batch, wide, tab, pager >>

\* fullScan of the detector: fileIndex.clear
FullScanClearIndex ==
    /\ pc = "fs_clear_index"
    /\ fileIndex' = EmptyFileIndex
    /\ pc' = "fs_clear_dirm"
    /\ UNCHANGED << serverVars, dirMtime, progress, op, mode, changes, changedDirs,
                    calls, scanQueue, scanMtimes, muts, prevWalk, quiet, inSync, strays, fails, pending, fan, batch, wide, tab, pager >>

\* fullScan of the detector: dirMtimeStore.clear, then the scan starts at
\* remoteBaseDir with an empty dirMtimes array
FullScanClearDirMtime ==
    /\ pc = "fs_clear_dirm"
    /\ dirMtime' = EmptyDirMtime
    /\ scanQueue' = {Base}
    /\ scanMtimes' = {}
    /\ pc' = "fs_scan"
    /\ UNCHANGED << serverVars, fileIndex, progress, op, mode, changes, changedDirs,
                    calls, muts, prevWalk, quiet, inSync, strays, fails, pending, fan, batch, wide, tab, pager >>

\* Mutant: a scanDirRecursive that stores the directory's mtime at once,
\* instead of leaving it to the batch at the end of fullScan.
ScanDirStoringMtime(d) ==
    /\ pc = "fs_scan"
    /\ d \in scanQueue
    /\ ~PropfindThrows(remote, d, {})
    /\ LET r == ScanDirRecursive(remote, d)
       IN  /\ fileIndex' = BatchSet(fileIndex, r.fileEntries)
           /\ scanMtimes' = scanMtimes \cup {r.dirMtimeEntry}
           /\ dirMtime' = DirMtimeBatchSet(dirMtime, {r.dirMtimeEntry})
           /\ scanQueue' = (scanQueue \ {d}) \cup r.subDirs
    /\ calls' = calls \cup {<<"scan", d>>}
    /\ UNCHANGED << serverVars, progress, pc, op, mode, changes, changedDirs,
                    muts, prevWalk, quiet, inSync, strays, fails, pending, fan, batch, wide, tab, pager >>

\* One scanDirRecursive call: PROPFIND depth 1, the batch into the file index,
\* the dirMtimes record; its subdirectories become pending.
ScanDir(d) ==
    /\ pc = "fs_scan"
    /\ d \in scanQueue
    /\ ~PropfindThrows(remote, d, {})
    /\ LET r == ScanDirRecursive(remote, d)
       IN  /\ fileIndex' = BatchSet(fileIndex, r.fileEntries)
           /\ scanMtimes' = scanMtimes \cup {r.dirMtimeEntry}
           /\ scanQueue' = (scanQueue \ {d}) \cup r.subDirs
    /\ calls' = calls \cup {<<"scan", d>>}
    /\ UNCHANGED << serverVars, dirMtime, progress, pc, op, mode, changes, changedDirs,
                    muts, prevWalk, quiet, inSync, strays, fails, pending, fan, batch, wide, tab, pager >>

\* fullScan of the detector, every directory scanned: dirMtimeStore.batchSet
FullScanSaveMtimes ==
    /\ pc = "fs_scan"
    /\ scanQueue = {}
    /\ dirMtime' = DirMtimeBatchSet(dirMtime, scanMtimes)
    /\ pc' = "fs_progress"
    /\ UNCHANGED << serverVars, fileIndex, progress, op, mode, changes, changedDirs,
                    calls, scanQueue, scanMtimes, muts, prevWalk, quiet, inSync, strays, fails, pending, fan, batch, wide, tab, pager >>

\* fullScan of the driver: progressStore.clear
FullScanDone ==
    /\ pc = "fs_progress"
    /\ progress' = NoEntry
    /\ pc' = "list"
    /\ UNCHANGED << serverVars, fileIndex, dirMtime, op, mode, changes, changedDirs,
                    calls, scanQueue, scanMtimes, muts, prevWalk, quiet, inSync, strays, fails, pending, fan, batch, wide, tab, pager >>

\* getFromIndex: the operation returns GetFromIndex(fileIndex), and the locals
\* of the call are gone
Return ==
    /\ pc = "list"
    /\ prevWalk' = (op = "walk")
    /\ pc' = "idle"
    /\ op' = "none"
    /\ mode' = "none"
    /\ changes' = {}
    /\ changedDirs' = {}
    /\ calls' = {}
    /\ scanMtimes' = {}
    /\ muts' = << >>
    /\ quiet' = FALSE
    /\ inSync' = MatchesServer(fileIndex, remote)
    /\ fails' = NoFailure
    /\ pending' = NoPending
    /\ UNCHANGED << serverVars, fileIndex, dirMtime, progress, scanQueue, strays, fan, batch, wide, tab, pager >>

\* Mutant: a clearIndex() that leaves the progress record.
ClearIndexKeepingProgress ==
    /\ pc = "idle"
    /\ fileIndex' = EmptyFileIndex
    /\ dirMtime' = EmptyDirMtime
    /\ prevWalk' = FALSE
    /\ inSync' = MatchesServer(EmptyFileIndex, remote)
    /\ UNCHANGED << serverVars, progress, pc, op, mode, changes, changedDirs, calls, scanQueue,
                    scanMtimes, muts, quiet, strays, fails, pending, fan, batch, wide, tab, pager >>

\* clearIndex()
ClearIndex ==
    /\ pc = "idle"
    /\ fileIndex' = EmptyFileIndex
    /\ dirMtime' = EmptyDirMtime
    /\ progress' = NoEntry
    /\ prevWalk' = FALSE
    /\ inSync' = MatchesServer(EmptyFileIndex, remote)
    /\ UNCHANGED << serverVars, pc, op, mode, changes, changedDirs, calls, scanQueue,
                    scanMtimes, muts, quiet, strays, fails, pending, fan, batch, wide, tab, pager >>

\* rebuildIndex(): clearIndex(), then fullScan()
RebuildIndex ==
    /\ pc = "idle"
    /\ fileIndex' = EmptyFileIndex
    /\ dirMtime' = EmptyDirMtime
    /\ progress' = NoEntry
    /\ prevWalk' = FALSE
    /\ op' = "rebuild"
    /\ mode' = "full"
    /\ pc' = "fs_save"
    /\ UNCHANGED << serverVars, changes, changedDirs, calls, scanQueue, scanMtimes,
                    muts, quiet, inSync, strays, fails, pending, fan, batch, wide, tab, pager >>

\* The server changes between two operations of the driver.
MutateIdle == pc = "idle" /\ Mutate

\* ------------------------------------------------------- transport errors

\* The failure patterns of one detectChanges call: which PROPFINDs fail, by
\* call site (statDir, getSubDirs, listDir).
RECURSIVE UpTo(_, _)
UpTo(S, k) ==
    IF k = 0
        THEN {{}}
        ELSE LET fewer == UpTo(S, k - 1)
             IN  fewer \cup { T \cup {e} : T \in fewer, e \in S }

FailurePattern(S) ==
    [stat |-> { c[2] : c \in { x \in S : x[1] = "stat" } },
     sub |-> { c[2] : c \in { x \in S : x[1] = "subdirs" } },
     list |-> { c[2] : c \in { x \in S : x[1] = "list" } },
     restat |-> {},
     class |-> IF S = {} THEN "none" ELSE "other"]

FailurePatterns ==
    { FailurePattern(S) : S \in UpTo({"stat", "subdirs", "list"} \X AllPaths, MaxFailures) }
        \ {NoFailure}

\* The PROPFINDs that fail are PROPFINDs the call issues, on existing paths.
Issued(F) ==
    LET issued == DetectChanges(remote, fileIndex, dirMtime, F).calls
    IN  /\ \A d \in F.stat : <<"stat", d>> \in issued /\ Exists(remote, d)
        /\ \A d \in F.sub : <<"subdirs", d>> \in issued /\ Exists(remote, d)
        /\ \A d \in F.list : <<"list", d>> \in issued /\ Exists(remote, d)

\* The classes of the errors requestUrl rejects with: HTTP 503, and the rest.
ErrorClasses == {"503", "other"}

\* propfind of the detector: the call of requestUrl stands in no try block
\* and no loop, so a rejection of any class ends the call.
PropfindRetries(class) == FALSE

\* detectChanges with PROPFINDs that fail: statDir, getSubDirs and listDir
\* catch the error, whatever its class, and return null or []
DetectFailing ==
    /\ pc = "detect"
    /\ ~NeedFullScan(dirMtime)
    /\ ~PropfindRetries("other")
    /\ \E F \in FailurePatterns : Issued(F) /\ Detect(F)

\* detectChanges with PROPFINDs answered with HTTP 503: propfind does not
\* retry, and statDir, getSubDirs and listDir catch the error like any other
DetectFailing503 ==
    /\ pc = "detect"
    /\ ~NeedFullScan(dirMtime)
    /\ ~PropfindRetries("503")
    /\ \E F \in FailurePatterns : Issued(F) /\ Detect([F EXCEPT !.class = "503"])

\* updateDirMtimeCache with a statDir that fails: the directory is skipped
ApplyDirMtimeFailing ==
    /\ pc = "apply_dirm"
    /\ \E failing \in UpTo({ d \in AffectedDirs(changes) : Exists(remote, d) }, MaxFailures) :
            failing # {} /\ ApplyDirMtime(failing)

\* Mutant: a fullScan that clears the progress record when it fails.
ScanFailsClearingProgress(d) ==
    /\ pc = "fs_scan"
    /\ d \in scanQueue
    /\ strays' = strays \cup (scanQueue \ {d})
    /\ scanQueue' = {}
    /\ scanMtimes' = {}
    /\ progress' = NoEntry
    /\ pc' = "idle"
    /\ op' = "none"
    /\ mode' = "none"
    /\ calls' = {}
    /\ muts' = << >>
    /\ quiet' = FALSE
    /\ prevWalk' = FALSE
    /\ inSync' = FALSE
    /\ UNCHANGED << serverVars, fileIndex, dirMtime, changes, changedDirs, fails, pending, fan, batch, wide, tab, pager >>

\* The PROPFIND of one scanDirRecursive call throws. Within a fullScan the
\* error goes up through Promise.all, fullScan and the operation, which
\* rejects: the stores stay as they are, progress is not cleared, and the
\* other calls of the chunk keep running. A call already left behind stops.
ScanFails(d) ==
    IF pc = "fs_scan"
        THEN /\ d \in scanQueue
             /\ strays' = strays \cup (scanQueue \ {d})
             /\ scanQueue' = {}
             /\ scanMtimes' = {}
             /\ pc' = "idle"
             /\ op' = "none"
             /\ mode' = "none"
             /\ calls' = {}
             /\ muts' = << >>
             /\ quiet' = FALSE
             /\ prevWalk' = FALSE
             /\ inSync' = FALSE
             /\ UNCHANGED << serverVars, fileIndex, dirMtime, progress, changes,
                             changedDirs, fails, pending, fan, batch, wide, tab, pager >>
        ELSE /\ d \in strays
             /\ strays' = strays \ {d}
             /\ UNCHANGED << serverVars, fileIndex, dirMtime, progress, pc, op, mode,
                             changes, changedDirs, calls, scanQueue, scanMtimes, muts,
                             prevWalk, quiet, inSync, fails, pending, fan, batch, wide, tab, pager >>

\* A scanDirRecursive call left behind by a rejected fullScan goes on: its
\* onBatch still writes to the file index, and it scans its subdirectories.
\* The dirMtimes array it pushes on is never stored.
StrayScan(d) ==
    /\ d \in strays
    /\ ~PropfindThrows(remote, d, {})
    /\ LET r == ScanDirRecursive(remote, d)
       IN  /\ fileIndex' = BatchSet(fileIndex, r.fileEntries)
           /\ strays' = (strays \ {d}) \cup r.subDirs
    /\ UNCHANGED << serverVars, dirMtime, progress, pc, op, mode, changes, changedDirs,
                    calls, scanQueue, scanMtimes, muts, prevWalk, quiet, inSync, fails, pending, fan, batch, wide, tab, pager >>

Next ==
    \/ MutateIdle
    \/ WalkStart
    \/ DetectStep
    \/ ApplyFileIndex
    \/ ApplyDirMtimeStep
    \/ FullScanSave
    \/ FullScanClearIndex
    \/ FullScanClearDirMtime
    \/ \E d \in AllPaths : ScanDir(d)
    \/ FullScanSaveMtimes
    \/ FullScanDone
    \/ Return
    \/ ClearIndex
    \/ RebuildIndex

Spec == Init /\ [][Next]_vars

\* The same program on a network where PROPFINDs may fail.
NextErr ==
    \/ Next
    \/ DetectFailing
    \/ ApplyDirMtimeFailing
    \/ \E d \in AllPaths : ScanFails(d)
    \/ \E d \in AllPaths : StrayScan(d)

SpecErr == Init /\ [][NextErr]_vars

\* The server changes at any moment, walk() running or not: it adds and
\* removes, and advances the mtime of every directory above the path.
MutateAnyTime ==
    \E p \in Paths :
        \/ \E s \in Sizes : AddFile(p, s, Ancestors(p))
        \/ AddDir(p, Ancestors(p))
        \/ Delete(p, Ancestors(p))

\* The steps of walk(), no PROPFIND failing.
WalkSteps ==
    \/ WalkStart
    \/ DetectStep
    \/ ApplyFileIndex
    \/ ApplyDirMtimeStep
    \/ FullScanSave
    \/ FullScanClearIndex
    \/ FullScanClearDirMtime
    \/ \E d \in AllPaths : ScanDir(d)
    \/ FullScanSaveMtimes
    \/ FullScanDone
    \/ Return

\* walk() is called again and again while the server changes under it; every
\* call runs to its end, and the next one follows.
NextLive ==
    \/ MutateAnyTime
    \/ WalkSteps

SpecLive == Init /\ [][NextLive]_vars /\ WF_vars(WalkSteps)

\* ------------------------------------------------------- abandoned calls

\* The file index a walk() leaves when it runs to its end without error.
WalkResult(R, idx, dm) ==
    IF IsFirstSync(idx) \/ NeedFullScan(dm)
        THEN FullScanIndex(R)
        ELSE UpdateFileIndex(idx, DetectChanges(R, idx, dm, NoFailure).changes)

\* walk() begins. Unless it follows a dropped walk() on the same server state,
\* what it is to leave in the file index is noted.
WalkStartTracked ==
    /\ WalkStartCore
    /\ pending' = IF pending # NoPending /\ pending.remote = remote
                      THEN pending
                      ELSE [kind |-> "walk", remote |-> remote, dropped |-> FALSE,
                            index |-> WalkResult(remote, fileIndex, dirMtime)]

\* The locals of a walk() whose caller dropped it.
Dropped ==
    /\ op = "walk"
    /\ pc # "idle"
    /\ pending # NoPending
    /\ pending' = [pending EXCEPT !.dropped = TRUE]
    /\ pc' = "idle"
    /\ op' = "none"
    /\ mode' = "none"
    /\ changes' = {}
    /\ changedDirs' = {}
    /\ calls' = {}
    /\ scanQueue' = {}
    /\ scanMtimes' = {}
    /\ quiet' = FALSE
    /\ prevWalk' = FALSE
    /\ inSync' = FALSE
    /\ UNCHANGED << serverVars, progress, muts, strays, fails, fan, batch, wide, tab, pager >>

\* The caller drops walk() between two store calls.
DropBetween ==
    /\ Dropped
    /\ UNCHANGED << fileIndex, dirMtime >>

\* The caller drops walk() inside updateFileIndex: some setItem calls of
\* batchSet have completed, or all of them and some removeItem calls of
\* batchDelete.
DropInUpdateFileIndex ==
    /\ pc = "apply_index"
    /\ Dropped
    /\ \E done \in SUBSET changes :
            /\ \/ \A c \in done : c.type # "deleted"
               \/ \A c \in changes : c.type # "deleted" => c \in done
            /\ fileIndex' = UpdateFileIndex(fileIndex, done)
    /\ UNCHANGED dirMtime

\* The caller drops walk() inside updateDirMtimeCache: some directories
\* have their mtime stored.
DropInUpdateDirMtime ==
    /\ pc = "apply_dirm"
    /\ Dropped
    /\ \E done \in SUBSET changes :
            dirMtime' = UpdateDirMtimeCache(remote, dirMtime, done, {})
    /\ UNCHANGED fileIndex

\* The caller drops walk() inside the batchSet of one scanDirRecursive call.
DropInScanBatch ==
    /\ pc = "fs_scan"
    /\ Dropped
    /\ \E d \in scanQueue :
            /\ ~PropfindThrows(remote, d, {})
            /\ \E done \in SUBSET ScanDirRecursive(remote, d).fileEntries :
                    fileIndex' = BatchSet(fileIndex, done)
    /\ UNCHANGED dirMtime

\* The caller drops walk() inside the final dirMtimeStore.batchSet of fullScan.
DropInSaveMtimes ==
    /\ pc = "fs_scan"
    /\ scanQueue = {}
    /\ Dropped
    /\ \E done \in SUBSET scanMtimes :
            dirMtime' = DirMtimeBatchSet(dirMtime, done)
    /\ UNCHANGED fileIndex

\* walk() on a server that changes between calls, with callers that drop it.
NextDrop ==
    \/ MutateIdle
    \/ WalkStartTracked
    \/ DetectStep
    \/ ApplyFileIndex
    \/ ApplyDirMtimeStep
    \/ FullScanSave
    \/ FullScanClearIndex
    \/ FullScanClearDirMtime
    \/ \E d \in AllPaths : ScanDir(d)
    \/ FullScanSaveMtimes
    \/ FullScanDone
    \/ Return
    \/ DropBetween
    \/ DropInUpdateFileIndex
    \/ DropInUpdateDirMtime
    \/ DropInScanBatch
    \/ DropInSaveMtimes

SpecDrop == Init /\ [][NextDrop]_vars

\* The same program on a server that answers PROPFINDs with HTTP 503.
Next503 ==
    \/ Next
    \/ DetectFailing503

Spec503 == Init /\ [][Next503]_vars

\* ------------------------------------------------- the fan-out of calls

\* this.concurrency: options.concurrency || 5, and the driver passes 5
Concurrency == 5

\* The widest remoteBaseDir, and the widest first subdirectory of it.
MaxWidth == 6
MaxNested == 6

\* Mutant: a chunkArray that puts the whole array into one chunk.
ChunkArrayOne(array, size) == IF Len(array) = 0 THEN << >> ELSE << array >>

\* chunkArray(array, size): slice(i, i + size) for i = 0, size, 2 * size, ...
ChunkArray(array, size) ==
    [k \in 1..((Len(array) + size - 1) \div size) |->
        SubSeq(array, (k - 1) * size + 1,
               IF k * size < Len(array) THEN k * size ELSE Len(array))]

\* The directories of the wide tree: remoteBaseDir << >>, its subdirectories
\* <<i>>, and the subdirectories <<1, j>> of the first of them.
FanNodes ==
    {<< >>} \cup { <<i>> : i \in 1..MaxWidth } \cup { <<1, j>> : j \in 1..MaxNested }

\* subDirs of one call, in the order the listing gave them
FanSubDirs(f, n) ==
    LET k == IF n = << >> THEN f.width ELSE IF n = <<1>> THEN f.nested ELSE 0
    IN  [i \in 1..k |-> Append(n, i)]

\* const chunks = this.chunkArray(subDirs, this.concurrency)
Chunks(f, n) == ChunkArray(FanSubDirs(f, n), Concurrency)

Members(chunk) == { chunk[i] : i \in 1..Len(chunk) }

\* detectChanges / fullScan call detectDirChanges / scanDirRecursive on
\* remoteBaseDir: the call runs up to its first await.
FanStarts ==
    { [kind |-> k, width |-> w, nested |-> m,
       status |-> [n \in FanNodes |-> IF n = << >> THEN "listing" ELSE "new"],
       chunk |-> [n \in FanNodes |-> 0]] :
        k \in {"detect", "fullscan"}, w \in 0..MaxWidth, m \in 0..MaxNested }

InitFan ==
    /\ remote = [p \in AllPaths |-> IF p = Base THEN DirNode(1) ELSE NoNode]
    /\ clock = 1
    /\ fileIndex = EmptyFileIndex
    /\ dirMtime = EmptyDirMtime
    /\ progress = NoEntry
    /\ pc = "idle"
    /\ op = "none"
    /\ mode = "none"
    /\ changes = {}
    /\ changedDirs = {}
    /\ calls = {}
    /\ scanQueue = {}
    /\ scanMtimes = {}
    /\ muts = << >>
    /\ prevWalk = FALSE
    /\ quiet = FALSE
    /\ inSync = FALSE
    /\ strays = {}
    /\ fails = NoFailure
    /\ pending = NoPending
    /\ fan \in { f \in FanStarts : f.width = 0 => f.nested = 0 }
    /\ batch = NoBatch
    /\ wide = NoWide
    /\ tab = NoClick
    /\ pager = NoPager

nonFanVars == << remote, clock, fileIndex, dirMtime, progress, pc, op, mode, changes,
                 changedDirs, calls, scanQueue, scanMtimes, muts, prevWalk, quiet,
                 inSync, strays, fails, pending, batch, wide, tab, pager >>

\* The call on n has its answer (statDir with a changed mtime and getSubDirs,
\* or propfind and onBatch) and reaches its loop over the chunks: with no
\* subdirectory it resolves, otherwise every call of the first chunk is made.
Listed(n) ==
    /\ fan # NoFan
    /\ fan.status[n] = "listing"
    /\ fan' = IF Len(Chunks(fan, n)) = 0
                THEN [fan EXCEPT !.status[n] = "done"]
                ELSE [fan EXCEPT
                         !.chunk[n] = 1,
                         !.status = [c \in FanNodes |->
                             IF c = n THEN "fanout"
                             ELSE IF c \in Members(Chunks(fan, n)[1]) THEN "listing"
                             ELSE @[c]]]
    /\ UNCHANGED nonFanVars

\* detectDirChanges returns before the loop: statDir gave null, or the mtime
\* is the cached one.
ReturnsEarly(n) ==
    /\ fan # NoFan
    /\ fan.kind = "detect"
    /\ fan.status[n] = "listing"
    /\ fan' = [fan EXCEPT !.status[n] = "done"]
    /\ UNCHANGED nonFanVars

\* for (const chunk of chunks) await Promise.all(chunk.map(...)): once every
\* call of the chunk before has resolved, every call of the next chunk is made.
StartChunk(n) ==
    /\ fan # NoFan
    /\ fan.status[n] = "fanout"
    /\ fan.chunk[n] < Len(Chunks(fan, n))
    /\ \A c \in Members(Chunks(fan, n)[fan.chunk[n]]) : fan.status[c] = "done"
    /\ fan' = [fan EXCEPT
                  !.chunk[n] = @ + 1,
                  !.status = [c \in FanNodes |->
                      IF c \in Members(Chunks(fan, n)[fan.chunk[n] + 1])
                          THEN "listing" ELSE @[c]]]
    /\ UNCHANGED nonFanVars

\* The loop is over and the call resolves.
Returns(n) ==
    /\ fan # NoFan
    /\ fan.status[n] = "fanout"
    /\ fan.chunk[n] = Len(Chunks(fan, n))
    /\ \A c \in Members(Chunks(fan, n)[fan.chunk[n]]) : fan.status[c] = "done"
    /\ fan' = [fan EXCEPT !.status[n] = "done"]
    /\ UNCHANGED nonFanVars

\* The propfind of scanDirRecursive throws: the call rejects, and so does the
\* Promise.all of every call above it, whose loop ends there. The other calls
\* of the chunks go on.
Rejects(n) ==
    /\ fan # NoFan
    /\ fan.kind = "fullscan"
    /\ fan.status[n] = "listing"
    /\ fan' = [fan EXCEPT !.status = [c \in FanNodes |->
                  IF Len(c) <= Len(n) /\ c = SubSeq(n, 1, Len(c))
                      THEN "failed" ELSE @[c]]]
    /\ UNCHANGED nonFanVars

NextFan ==
    \/ \E n \in FanNodes : Listed(n)
    \/ \E n \in FanNodes : ReturnsEarly(n)
    \/ \E n \in FanNodes : StartChunk(n)
    \/ \E n \in FanNodes : Returns(n)
    \/ \E n \in FanNodes : Rejects(n)

SpecFan == InitFan /\ [][NextFan]_vars

\* ------------------------------------------------- the writes of a batch

\* const BATCH_SIZE = 1000 of FileIndexStore.batchSet and batchDelete
BATCH_SIZE == 1000

\* The longest batch handed to a store.
MaxBatch == 2001

\* The batch calls of the stores.
BatchCalls == {"FileIndexStore.batchSet", "FileIndexStore.batchDelete", "DirMtimeStore.batchSet"}

\* The lengths of the batches: none, one, around one chunk, over two chunks.
BatchLengths == {0, 1, BATCH_SIZE, BATCH_SIZE + 1, MaxBatch}

\* The number of setItem / removeItem calls the next Promise.all makes, rest
\* records being left: FileIndexStore slices BATCH_SIZE of them,
\* DirMtimeStore.batchSet maps over the whole array.
NextSlice(call, rest) ==
    IF call = "DirMtimeStore.batchSet"
        THEN rest
        ELSE IF rest < BATCH_SIZE THEN rest ELSE BATCH_SIZE

\* A batch call begins: no write issued yet.
BatchStarts ==
    { [kind |-> c, length |-> n, issued |-> 0, written |-> 0, returned |-> FALSE] :
        c \in BatchCalls, n \in BatchLengths }

InitBatch ==
    /\ remote = [p \in AllPaths |-> IF p = Base THEN DirNode(1) ELSE NoNode]
    /\ clock = 1
    /\ fileIndex = EmptyFileIndex
    /\ dirMtime = EmptyDirMtime
    /\ progress = NoEntry
    /\ pc = "idle"
    /\ op = "none"
    /\ mode = "none"
    /\ changes = {}
    /\ changedDirs = {}
    /\ calls = {}
    /\ scanQueue = {}
    /\ scanMtimes = {}
    /\ muts = << >>
    /\ prevWalk = FALSE
    /\ quiet = FALSE
    /\ inSync = FALSE
    /\ strays = {}
    /\ fails = NoFailure
    /\ pending = NoPending
    /\ fan = NoFan
    /\ batch \in BatchStarts
    /\ wide = NoWide
    /\ tab = NoClick
    /\ pager = NoPager

nonBatchVars == << remote, clock, fileIndex, dirMtime, progress, pc, op, mode, changes,
                   changedDirs, calls, scanQueue, scanMtimes, muts, prevWalk, quiet,
                   inSync, strays, fails, pending, fan, wide, tab, pager >>

\* await Promise.all(batch.map(...)): every write issued so far has completed,
\* and the writes of the next slice are all issued.
IssueSlice ==
    /\ batch # NoBatch
    /\ ~batch.returned
    /\ batch.written = batch.issued
    /\ batch.issued < batch.length
    /\ batch' = [batch EXCEPT
                    !.issued = @ + NextSlice(batch.kind, batch.length - batch.issued)]
    /\ UNCHANGED nonBatchVars

\* One setItem / removeItem completes.
WriteCompletes ==
    /\ batch # NoBatch
    /\ batch.written < batch.issued
    /\ batch' = [batch EXCEPT !.written = @ + 1]
    /\ UNCHANGED nonBatchVars

\* The loop is over (or the one Promise.all resolved) and the call returns.
BatchReturns ==
    /\ batch # NoBatch
    /\ ~batch.returned
    /\ batch.issued = batch.length
    /\ batch.written = batch.issued
    /\ batch' = [batch EXCEPT !.returned = TRUE]
    /\ UNCHANGED nonBatchVars

NextBatch ==
    \/ IssueSlice
    \/ WriteCompletes
    \/ BatchReturns

SpecBatch == InitBatch /\ [][NextBatch]_vars

\* ------------------------------------- the diff of a directory of many children

\* The most children the compared directory has in the file index.
MaxChildren == 1001

\* The numbers of cached children: none, one, two, one page of getByParent,
\* and more than a page.
ChildCounts == {0, 1, 2, GetByParentLimit, MaxChildren}

\* The cached children of the directory are numbered 1, 2, ... in the key
\* order of the store. Child 2 is a directory, the others are files.
CachedChild(i) ==
    [path |-> i, isDir |-> (i = 2), mtime |-> 1, size |-> IF i = 2 THEN 0 ELSE 1]

\* The FileEntry records of the directory: a map from path to entry.
CachedChildren(k) == [i \in 1..k |-> CachedChild(i)]

\* What the server did to the directory since it was indexed: nothing, one
\* child added, or one child removed, rewritten (mtime, size) or replaced by
\* an entry of the other kind.
Edits(k) ==
    {[kind |-> "none", child |-> 0], [kind |-> "add", child |-> k + 1]}
    \cup { [kind |-> e, child |-> j] :
              e \in {"delete", "mtime", "size", "kind"},
              j \in {1, 2, k - 1, k} \cap 1..k }

\* The depth-1 listing of the directory after the edit, itself left out.
ListingAfter(k, edit) ==
    LET paths == IF edit.kind = "add" THEN 1..(k + 1)
                 ELSE IF edit.kind = "delete" THEN 1..k \ {edit.child}
                 ELSE 1..k
    IN  [i \in paths |->
            IF i # edit.child THEN CachedChild(i)
            ELSE IF edit.kind = "add" THEN [path |-> i, isDir |-> FALSE, mtime |-> 2, size |-> 1]
            ELSE IF edit.kind = "mtime" THEN [CachedChild(i) EXCEPT !.mtime = 2]
            ELSE IF edit.kind = "size" THEN [CachedChild(i) EXCEPT !.size = 2]
            ELSE [CachedChild(i) EXCEPT !.isDir = ~@]]

\* FileIndexStore.getByParent(parentPath), offset 0 and the default limit, on
\* the entries of one parent: the iteration pushes the first limit of them.
GetByParentPage(entries, limit) ==
    [p \in { q \in DOMAIN entries :
                Cardinality({ r \in DOMAIN entries : r <= q }) <= limit } |-> entries[p]]

\* scanDirForChanges on remoteMap and the cachedMap built from getByParent
DiffOfMaps(remoteMap, cachedMap) ==
    { Change(p, "added", remoteMap[p]) : p \in DOMAIN remoteMap \ DOMAIN cachedMap }
    \cup
    { Change(p, "modified", remoteMap[p]) :
        p \in { q \in DOMAIN remoteMap \cap DOMAIN cachedMap :
                    IsModified(cachedMap[q], remoteMap[q]) } }
    \cup
    { Change(p, "deleted", NoStat) : p \in DOMAIN cachedMap \ DOMAIN remoteMap }

InitWide ==
    /\ remote = [p \in AllPaths |-> IF p = Base THEN DirNode(1) ELSE NoNode]
    /\ clock = 1
    /\ fileIndex = EmptyFileIndex
    /\ dirMtime = EmptyDirMtime
    /\ progress = NoEntry
    /\ pc = "idle"
    /\ op = "none"
    /\ mode = "none"
    /\ changes = {}
    /\ changedDirs = {}
    /\ calls = {}
    /\ scanQueue = {}
    /\ scanMtimes = {}
    /\ muts = << >>
    /\ prevWalk = FALSE
    /\ quiet = FALSE
    /\ inSync = FALSE
    /\ strays = {}
    /\ fails = NoFailure
    /\ pending = NoPending
    /\ fan = NoFan
    /\ batch = NoBatch
    /\ \E k \in ChildCounts : \E e \in Edits(k) :
          wide = [kind |-> "wide", cached |-> CachedChildren(k),
                  listing |-> ListingAfter(k, e), scanned |-> FALSE,
                  applied |-> FALSE, diff |-> {}]
    /\ tab = NoClick
    /\ pager = NoPager

nonWideVars == << remote, clock, fileIndex, dirMtime, progress, pc, op, mode, changes,
                  changedDirs, calls, scanQueue, scanMtimes, muts, prevWalk, quiet,
                  inSync, strays, fails, pending, fan, batch, tab, pager >>

\* scanDirForChanges(dirPath) on the directory
WideScan ==
    /\ wide # NoWide
    /\ ~wide.scanned
    /\ wide' = [wide EXCEPT
                   !.scanned = TRUE,
                   !.diff = DiffOfMaps(wide.listing,
                                       GetByParentPage(wide.cached, GetByParentLimit))]
    /\ UNCHANGED nonWideVars

\* updateFileIndex(changes) with the changes of that directory
WideApply ==
    /\ wide # NoWide
    /\ wide.scanned
    /\ ~wide.applied
    /\ LET set == { c \in wide.diff : c.type # "deleted" }
           gone == { c.path : c \in { x \in wide.diff : x.type = "deleted" } }
           kept == (DOMAIN wide.cached \cup { c.path : c \in set }) \ gone
       IN  wide' = [wide EXCEPT
                       !.applied = TRUE,
                       !.cached = [p \in kept |->
                                      IF \E c \in set : c.path = p
                                          THEN (CHOOSE c \in set : c.path = p).stat
                                          ELSE wide.cached[p]]]
    /\ UNCHANGED nonWideVars

NextWide ==
    \/ WideScan
    \/ WideApply

SpecWide == InitWide /\ [][NextWide]_vars

\* ---------------------------------------------------------------- claims

IndexedPaths(idx) == { p \in Paths : idx[p] # NoEntry }

\* walk() has done all its work and is about to return its listing.
WalkReturning == pc = "list" /\ op = "walk"

\* Since the last walk() the server only added and removed, and each time it
\* advanced the mtime of every directory above the path.
FavourableMutations ==
    \A i \in 1..Len(muts) :
        muts[i].kind \in {"add", "delete"} /\ muts[i].touched = Ancestors(muts[i].path)

\* C1 (incremental completeness): when walk() returns, the FileEntry records
\* are those a fresh full scan of the server would store. Stated for the runs
\* most favourable to the detector -- the index matched the server when the
\* last operation returned, the server has only added and removed since, it
\* advanced the mtime of every ancestor, and directory mtimes are left out of
\* the comparison -- all of which the claim covers.
C1_IncrementalCompleteness ==
    (WalkReturning /\ inSync /\ FavourableMutations) => MatchesServer(fileIndex, remote)

\* C2 (round trip): once the detector's fullScan has completed, the paths of
\* the file index are exactly the paths a naive depth-first traversal of the
\* server yields under remoteBaseDir, each stored once under its own key.
C2_RoundTrip ==
    (pc = "fs_progress" \/ (pc = "list" /\ mode = "full")) =>
        /\ IndexedPaths(fileIndex) = { s.path : s \in TraverseWebDAV(remote, Base) }
        /\ \A p \in IndexedPaths(fileIndex) : fileIndex[p].path = p

\* A full scan has completed on a server that holds a nested directory.
C2_Witness ==
    /\ pc = "list"
    /\ mode = "full"
    /\ IndexedPaths(fileIndex) = Paths
    /\ IsDirAt(remote, <<"base", "a">>)

DepthZeroCalls == { c \in calls : c[1] = "stat" }

\* C3 (incremental soundness): in a walk() that follows a completed walk()
\* with the server unchanged, detectChanges returns no change and issues at
\* most D depth-0 PROPFINDs, D the number of DirMtimeEntry records.
C3_IncrementalSoundness ==
    (op = "walk" /\ quiet /\ mode \in {"quiet", "incr"}) =>
        /\ changes = {}
        /\ Cardinality(DepthZeroCalls) <= Cardinality(CachedDirs(dirMtime))

\* The steps of walk() that write to a store: the full scan and applyChanges.
WritingSteps ==
    {"fs_save", "fs_clear_index", "fs_clear_dirm", "fs_scan", "fs_progress",
     "apply_index", "apply_dirm"}

\* C4 as claimed (idempotence, for every remote tree): a walk() that follows a
\* completed walk() with the server unchanged finds no change and issues no
\* write to the file index.
C4_IdempotenceAnyTree ==
    (op = "walk" /\ quiet) =>
        pc \notin WritingSteps /\ mode # "full" /\ changes = {}

\* C4 (idempotence, amended): when remoteBaseDir holds at least one child, a
\* walk() that follows a completed walk() with the server unchanged takes
\* neither the full scan nor applyChanges, and its change list is empty.
C4_Idempotence ==
    (op = "walk" /\ quiet /\ ChildrenOf(remote, Base) # {}) =>
        pc \notin WritingSteps /\ mode # "full" /\ changes = {}

\* The second of two walk() calls in a row is about to return, on a tree with
\* a directory the first one found changed.
C4_Witness ==
    /\ WalkReturning
    /\ quiet
    /\ ChildrenOf(remote, Base) # {}
    /\ changedDirs # {}

\* What one step of walk() may do, by the place it leaves.
WalkStep ==
    /\ (pc = "idle" /\ op' = "walk") =>
        /\ pc' \in {"fs_save", "detect"}
        /\ pc' = "fs_save" <=> Count(fileIndex) = 0
    /\ (pc = "detect" /\ pc' # "detect") =>
        /\ pc' \in {"fs_save", "apply_index", "list"}
        /\ pc' = "fs_save" <=> CachedDirs(dirMtime) = {}
        /\ pc' = "apply_index" <=> (CachedDirs(dirMtime) # {} /\ changes' # {})
    /\ (pc = "apply_index" /\ pc' # "apply_index") =>
        /\ pc' = "apply_dirm"
        /\ fileIndex' = UpdateFileIndex(fileIndex, changes)
        /\ dirMtime' = dirMtime
        /\ changes' = changes
    /\ (pc = "apply_dirm" /\ pc' # "apply_dirm") =>
        /\ pc' = "list"
        /\ fileIndex' = fileIndex
        /\ changes' = changes
    /\ (op = "walk" /\ mode = "quiet" /\ pc = "list" /\ pc' # "list") =>
        /\ fileIndex' = fileIndex
        /\ dirMtime' = dirMtime
        /\ progress' = progress

\* C5 (path selection and ordering), on every step of walk(), PROPFINDs
\* failing or not: walk() starts a full scan exactly when the file index is
\* empty, and else calls detectChanges; after detectChanges it starts a full
\* scan exactly when the dir-mtime cache is empty, else applies the changes
\* exactly when the change list is not empty, else goes straight to the
\* listing; updateFileIndex runs first and alone, updateDirMtimeCache second
\* and alone, the change list fixed while they run; a walk() that found no
\* change returns with both stores as they were.
C5_WalkPaths == [][WalkStep]_vars

\* walk() has applied a change list with an addition and a deletion, has
\* refreshed the mtime of remoteBaseDir, and is about to read the listing.
C5_Witness ==
    /\ WalkReturning
    /\ mode = "incr"
    /\ \E c \in changes : c.type = "added"
    /\ \E c \in changes : c.type = "deleted"
    /\ <<"restat", Base>> \in calls

\* C6 (pruning), while the cache is still the one detectChanges read: a
\* visited directory whose cached mtime equals its current mtime is not a
\* changed directory, gets no depth-1 PROPFIND, and nothing below it gets any
\* PROPFIND; every PROPFIND of the walk() is on a changed directory, or is the
\* depth-0 PROPFIND of remoteBaseDir or of a subdirectory of a changed one.
Pruned(d) ==
    /\ <<"stat", d>> \in calls
    /\ dirMtime[d] # NoEntry
    /\ Exists(remote, d)
    /\ dirMtime[d].mtime = remote[d].mtime

C6_Pruning ==
    (op = "walk" /\ (pc \in {"apply_index", "apply_dirm"} \/ (pc = "list" /\ mode = "quiet"))) =>
        /\ \A d \in AllPaths :
              Pruned(d) =>
                /\ d \notin changedDirs
                /\ \A c \in calls : c[2] = d => c[1] = "stat"
                /\ \A c \in calls : ~IsUnder(c[2], d)
        /\ \A c \in calls :
              \/ c[2] \in changedDirs
              \/ c[1] = "stat" /\ (c[2] = Base \/ Dirname(c[2]) \in changedDirs)

\* remoteBaseDir changed, /base/a did not and is pruned, with a directory
\* below it that is never visited.
C6_Witness ==
    /\ op = "walk"
    /\ pc = "apply_index"
    /\ Base \in changedDirs
    /\ Pruned(<<"base", "a">>)
    /\ IsDirAt(remote, <<"base", "a", "x">>)

\* C7 (detectChanges is non-destructive): whatever the stores and the server
\* hold and whichever PROPFINDs fail, the step of walk() that is the call of
\* detectChanges leaves every FileEntry and every DirMtimeEntry as it was.
C7_DetectNonDestructive ==
    [][(pc = "detect" /\ pc' # "detect") =>
            (fileIndex' = fileIndex /\ dirMtime' = dirMtime)]_vars

\* detectChanges has returned changes from a call in which a PROPFIND failed.
C7_Witness ==
    /\ op = "walk"
    /\ pc = "apply_index"
    /\ fails # NoFailure
    /\ changes # {}

\* C8 (no orphans): between operations, the parent of every FileEntry is
\* remoteBaseDir or an indexed directory.
C8_NoOrphans ==
    pc = "idle" =>
        \A p \in IndexedPaths(fileIndex) :
            \/ fileIndex[p].parentPath = Base
            \/ /\ fileIndex[p].parentPath \in IndexedPaths(fileIndex)
               /\ fileIndex[fileIndex[p].parentPath].isDir

\* C9 (invariant 2), for the directories under remoteBaseDir: between
\* operations, a directory with a DirMtimeEntry has a FileEntry with isDir.
C9_DirMtimeHasFileEntry ==
    pc = "idle" =>
        \A d \in Paths :
            dirMtime[d] # NoEntry => (fileIndex[d] # NoEntry /\ fileIndex[d].isDir)

\* C10 (S4): when the index matched the server and the one mutation since
\* then removed a directory with everything under it, the server advancing
\* the mtime of every directory above it, walk() reports `deleted` for the
\* directory and for every indexed path below it, and the file index holds
\* none of them any more.
C10_NestedDeletion ==
    (/\ WalkReturning
     /\ inSync
     /\ Len(muts) = 1
     /\ muts[1].kind = "delete"
     /\ muts[1].wasDir
     /\ muts[1].touched = Ancestors(muts[1].path)) =>
        \A p \in muts[1].gone :
            Change(p, "deleted", NoStat) \in changes /\ fileIndex[p] = NoEntry

\* The FileEntry records of the children of d.
IndexedChildren(idx, d) == { p \in IndexedPaths(idx) : idx[p].parentPath = d }

\* C11 (a diff whose listing failed is not committed): in a walk() in which
\* the depth-1 PROPFIND of directory d failed during the diff, no step removes
\* a FileEntry child of d from the file index.
C11_FailedListingNotCommitted ==
    [][op = "walk" =>
          \A d \in fails.list :
              IndexedChildren(fileIndex, d) \subseteq IndexedChildren(fileIndex', d)]_vars

\* The changes of a change list that lie in directory d.
DiffOf(chs, d) == { c \in chs : Dirname(c.path) = d }

\* detectChanges has returned to walk().
DetectReturns == pc = "detect" /\ pc' # "detect"

\* C12 (listing failure in the detector): detectChanges always returns to
\* walk(); in its result the diff of a changed directory whose depth-1
\* PROPFIND failed is one `deleted` change per cached child and nothing else,
\* and the diff of every other changed directory is the one its listing gives.
C12_ListingFailure ==
    [][DetectReturns =>
          /\ pc' \in {"fs_save", "apply_index", "list"}
          /\ \A d \in changedDirs' \cap fails'.list :
                DiffOf(changes', d) =
                    { Change(p, "deleted", NoStat) : p \in IndexedChildren(fileIndex, d) }
          /\ \A d \in changedDirs' \ fails'.list :
                DiffOf(changes', d) = ScanDirForChanges(remote, fileIndex, d, {})]_vars

\* The listing of remoteBaseDir failed: its cached children are reported
\* deleted, while the diff of /base/a still reports the file added there.
C12_Witness ==
    /\ op = "walk"
    /\ pc = "apply_index"
    /\ fails.list = {Base}
    /\ \E c \in DiffOf(changes, Base) : c.type = "deleted" /\ Exists(remote, c.path)
    /\ \E c \in DiffOf(changes, <<"base", "a">>) : c.type = "added"

\* C13 (stat failure in the detector): detectChanges always returns to
\* walk(); a directory d whose depth-0 PROPFIND failed is a changed
\* directory, gets no depth-1 PROPFIND for its subdirectories, nothing below
\* it gets any PROPFIND, and every other subdirectory of d's parent is still
\* visited.
C13_StatFailure ==
    [][DetectReturns =>
          /\ pc' \in {"fs_save", "apply_index", "list"}
          /\ \A d \in fails'.stat :
                /\ d \in changedDirs'
                /\ <<"subdirs", d>> \notin calls'
                /\ \A c \in calls' : ~IsUnder(c[2], d)
                /\ \A s \in Paths :
                      (Dirname(s) = Dirname(d) /\ IsDirAt(remote, s)
                            /\ <<"subdirs", Dirname(d)>> \in calls'
                            /\ Dirname(d) \notin fails'.sub)
                        => <<"stat", s>> \in calls']_vars

\* The depth-0 PROPFIND of /base/a failed: /base/a is a changed directory,
\* the directory below it is not visited, and its sibling /base/b is.
C13_Witness ==
    /\ op = "walk"
    /\ fails.stat = {<<"base", "a">>}
    /\ <<"base", "a">> \in changedDirs
    /\ IsDirAt(remote, <<"base", "a", "x">>)
    /\ dirMtime[<<"base", "a">>] # NoEntry
    /\ dirMtime[<<"base", "a">>].mtime = remote[<<"base", "a">>].mtime
    /\ <<"stat", <<"base", "b">> >> \in calls

\* C14 (full-scan failure): a full scan started by walk() or rebuildIndex()
\* ends in one of two ways: every directory was scanned and the scan goes on
\* to store the directory mtimes, or a PROPFIND failed and the operation ends
\* there, rejected, with the SyncProgress record saved at its start still in
\* the store.
C14_FullScanFailure ==
    [][(pc = "fs_scan" /\ pc' # "fs_scan") =>
          \/ scanQueue = {} /\ pc' = "fs_progress"
          \/ /\ scanQueue # {}
             /\ pc' = "idle"
             /\ op' = "none"
             /\ progress = ScanningProgress
             /\ progress' = ScanningProgress]_vars

\* A full scan was rejected: the progress record is in the store between
\* operations, over a file index already written in part.
C14_Witness ==
    /\ pc = "idle"
    /\ progress = ScanningProgress
    /\ fileIndex # EmptyFileIndex
    /\ dirMtime = EmptyDirMtime

\* C15 (transient errors are invisible to the core): in a walk() in which
\* PROPFINDs were answered with HTTP 503, no directory is a changed directory
\* because of it and no indexed path that is still on the server is reported
\* deleted.
C15_TransientInvisible ==
    (op = "walk" /\ fails.class = "503") =>
        /\ \A d \in fails.stat :
              d \in changedDirs =>
                  (dirMtime[d] = NoEntry \/ dirMtime[d].mtime # remote[d].mtime)
        /\ \A c \in changes : c.type = "deleted" => ~Exists(remote, c.path)

\* The cached state breaks invariant 1 (a FileEntry whose parent is neither
\* remoteBaseDir nor an indexed directory) or invariant 2 (a DirMtimeEntry,
\* other than that of remoteBaseDir, without a FileEntry of a directory).
CacheViolatesInvariants(idx, dm) ==
    \/ \E p \in IndexedPaths(idx) :
          /\ idx[p].parentPath # Base
          /\ ~(idx[p].parentPath \in IndexedPaths(idx) /\ idx[idx[p].parentPath].isDir)
    \/ \E d \in Paths :
          dm[d] # NoEntry /\ ~(idx[d] # NoEntry /\ idx[d].isDir)

\* C16 (cache invalidation on invariant violation): when the cached state
\* detectChanges reads breaks an invariant, detectChanges returns
\* needFullScan and walk() goes on to the full scan.
C16_InvalidationOnViolation ==
    [][(DetectReturns /\ op = "walk" /\ CacheViolatesInvariants(fileIndex, dirMtime))
          => pc' = "fs_save"]_vars

\* C17 (eventual consistency): when walk() is called again and again, without
\* error, and the server stops changing, then from some walk() on the file
\* index between calls is the one a fresh full scan of the server gives.
C17_EventualConsistency ==
    <>[](pc = "idle" => MatchesServer(fileIndex, remote))

\* C18 (abandoned walk()): when walk() was dropped, at any point, and a later
\* walk() runs to its end on the server state the dropped one began on, the
\* file index it leaves is the one the dropped walk() would have left had it
\* run to its end.
C18_AbandonedWalk ==
    (WalkReturning /\ pending # NoPending /\ pending.remote = remote)
        => fileIndex = pending.index

\* A walk() dropped after it had written to the stores is followed by one
\* that finds changes, applies them and is about to return.
C18_Witness ==
    /\ WalkReturning
    /\ mode = "incr"
    /\ pending # NoPending
    /\ pending.dropped
    /\ pending.remote = remote
    /\ progress = NoEntry

\* ------------------------------------------------------------------- C19

\* The dirMtimes records a full scan of R pushes, from dirPath down.
RECURSIVE FreshDirMtimes(_, _)
FreshDirMtimes(R, dirPath) ==
    LET r == ScanDirRecursive(R, dirPath)
    IN  {r.dirMtimeEntry} \cup UNION { FreshDirMtimes(R, s) : s \in r.subDirs }

\* The dir-mtime cache holding exactly those records.
FreshDirMtimeCache(R) ==
    [d \in AllPaths |->
        IF \E e \in FreshDirMtimes(R, Base) : e.path = d
            THEN CHOOSE e \in FreshDirMtimes(R, Base) : e.path = d
            ELSE NoEntry]

\* C19: rebuildIndex() that completes on an unchanged remote leaves the file
\* index and the dir-mtime cache equal to a fresh full scan of the remote,
\* whatever the stores held before (empty, partially written by a rejected
\* full scan, or with orphans); hence a second rebuildIndex() changes nothing.
C19_RebuildIndex ==
    (op = "rebuild" /\ pc \in {"fs_progress", "list"}) =>
        /\ fileIndex = FullScanIndex(remote)
        /\ dirMtime = FreshDirMtimeCache(remote)

\* A rebuildIndex() has completed while a call left behind by a rejected full
\* scan is still pending, on a remote with a nested directory.
C19_Witness ==
    /\ op = "rebuild"
    /\ pc = "list"
    /\ strays # {}
    /\ IsDirAt(remote, <<"base", "a">>)
    /\ Exists(remote, <<"base", "a", "x">>)
    /\ dirMtime[<<"base", "a">>] # NoEntry

\* ------------------------------------------------------------------- C20

\* The call on n has been made and has neither resolved nor rejected.
ActiveScan(n) == fan.status[n] \in {"listing", "fanout"}

\* n is c or lies below it.
FanUnder(n, c) == Len(c) <= Len(n) /\ SubSeq(n, 1, Len(c)) = c

\* C20: in detectChanges and in fullScan alike, at most Concurrency calls on
\* the immediate subdirectories of any directory p are active at once, and
\* once a call of chunk k + 1 of p has been made, no call of chunk k of p, nor
\* any call below one, is still active.
C20_BoundedFanOut ==
    fan # NoFan =>
        \A p \in FanNodes :
            /\ Cardinality({ c \in Members(FanSubDirs(fan, p)) : ActiveScan(c) })
                    <= Concurrency
            /\ \A k \in 1..(Len(Chunks(fan, p)) - 1) :
                  (\E c \in Members(Chunks(fan, p)[k + 1]) : fan.status[c] # "new")
                      => \A n \in FanNodes :
                            (\E b \in Members(Chunks(fan, p)[k]) : FanUnder(n, b))
                                => ~ActiveScan(n)

\* A full scan over a base directory of more than Concurrency subdirectories,
\* the first of them as wide: the call on the sixth subdirectory is active
\* while five calls below the first one have resolved.
C20_Witness ==
    /\ fan # NoFan
    /\ fan.kind = "fullscan"
    /\ fan.width > Concurrency
    /\ fan.nested > Concurrency
    /\ ActiveScan(<<6>>)
    /\ fan.status[<<1, 6>>] = "done"
    /\ fan.status[<<1>>] = "done"

\* ------------------------------------------------------------------- C21

\* The listing walk() is to return: every remote entry under remoteBaseDir,
\* by its relative path.
RemoteListing(R) ==
    { [path |-> SubSeq(s.path, Len(Base) + 1, Len(s.path)), isDir |-> s.isDir,
       mtime |-> s.mtime, size |-> s.size] : s \in TraverseWebDAV(R, Base) }

RemoteFiles(R) == { p \in Paths : Exists(R, p) /\ ~IsDirAt(R, p) }

RemoteDirs(R) == { p \in AllPaths : IsDirAt(R, p) }

\* C21: the first walk() on a fresh namespace returns every remote file under
\* remoteBaseDir, and getStats() then gives hasIndex = true, fileCount = the
\* number of remote files and dirCount = the number of remote directories,
\* remoteBaseDir counted.
C21_Bootstrap ==
    (WalkReturning /\ mode = "full" /\ ~prevWalk /\ strays = {}) =>
        /\ { s \in RemoteListing(remote) : ~s.isDir }
                \subseteq GetFromIndex(fileIndex)
        /\ GetStats(fileIndex) =
                [fileCount |-> Cardinality(RemoteFiles(remote)),
                 dirCount |-> Cardinality(RemoteDirs(remote)),
                 hasIndex |-> TRUE]

\* ------------------------------------------------------------------- C22

\* The stores are as a full scan of the remote's present tree, which is not
\* empty, leaves them.
Bootstrapped ==
    /\ fileIndex = FullScanIndex(remote)
    /\ dirMtime = FreshDirMtimeCache(remote)
    /\ Count(fileIndex) > 0

\* walk() on bootstrapped stores goes to the detector, and detectChanges
\* issues the depth-0 PROPFIND of remoteBaseDir and nothing else, reports no
\* change, and walk() goes on to its listing with both stores as they were.
QuietRescan ==
    /\ (pc = "idle" /\ op' = "walk") => pc' = "detect"
    /\ (pc = "detect" /\ op = "walk") =>
          /\ calls' = {<<"stat", Base>>}
          /\ changes' = {}
          /\ pc' = "list"
          /\ fileIndex' = fileIndex
          /\ dirMtime' = dirMtime
          /\ GetFromIndex(fileIndex') = GetFromIndex(FullScanIndex(remote))

\* C22: after a walk() that full-scanned a non-empty tree, the remote
\* unchanged, the next walk() issues exactly one PROPFIND (depth 0 on
\* remoteBaseDir), applies no change and returns the same listing.
C22_QuietRescan == [][Bootstrapped => QuietRescan]_vars

\* The second walk() on an unchanged tree of three entries is about to return.
C22_Witness ==
    /\ WalkReturning
    /\ quiet
    /\ mode = "quiet"
    /\ Bootstrapped
    /\ Count(fileIndex) = 3
    /\ calls = {<<"stat", Base>>}

\* ------------------------------------------------------------------- C23

\* Since the last operation returned with the index matching the server, the
\* server has done one thing: it rewrote an indexed file and advanced the
\* mtime of the directory that holds it.
OneChildModified ==
    /\ op = "walk"
    /\ inSync
    /\ Len(muts) = 1
    /\ muts[1].kind = "modify"
    /\ Dirname(muts[1].path) \in muts[1].touched
    /\ fileIndex[muts[1].path] # NoEntry

\* The dir-mtime cache holds every remote directory, with the present mtime
\* of those the server did not touch and an older one of those it touched.
CacheAsBefore ==
    \A d \in RemoteDirs(remote) :
        /\ dirMtime[d] # NoEntry
        /\ IF d \in muts[1].touched
              THEN dirMtime[d].mtime < remote[d].mtime
              ELSE dirMtime[d].mtime = remote[d].mtime

\* C23: when an indexed file is rewritten on the remote and the mtime of its
\* parent directory advances, walk() reports exactly one change, `modified`
\* for that file, and the file's FileEntry then carries the new mtime and size.
ChildModification ==
    /\ (pc = "detect" /\ OneChildModified /\ CacheAsBefore) =>
          changes' = { Change(muts[1].path, "modified", StatModel(remote, muts[1].path)) }
    /\ (pc = "apply_index" /\ OneChildModified) =>
          /\ fileIndex'[muts[1].path] # NoEntry
          /\ fileIndex'[muts[1].path].mtime = remote[muts[1].path].mtime
          /\ fileIndex'[muts[1].path].size = remote[muts[1].path].size

Invalidated == dirMtime = EmptyDirMtime /\ Count(fileIndex) > 0

\* C24: a walk() that finds the dir-mtime cache empty and the file index not
\* gets needFullScan from detectChanges, and the full scan leaves both stores
\* equal to a fresh full scan of the present remote: no entry for a path the
\* remote lost, present metadata, a DirMtimeEntry for every scanned directory.
CacheInvalidation ==
    /\ (DetectReturns /\ op = "walk" /\ Invalidated) =>
          /\ pc' = "fs_save"
          /\ mode' = "full"
    /\ (op = "walk" /\ mode = "full" /\ pc = "fs_progress" /\ pc' = "list") =>
          /\ fileIndex' = FullScanIndex(remote)
          /\ dirMtime' = FreshDirMtimeCache(remote)
          /\ CachedDirs(dirMtime') = RemoteDirs(remote)
          /\ IndexedPaths(fileIndex') = { q \in Paths : Exists(remote, q) }

C24_CacheInvalidation == [][CacheInvalidation]_vars

\* walk() has come back from detectChanges with needFullScan (the file index
\* is not empty, so it did not take the first-sync path), and the index holds
\* an entry for a path the remote no longer has.
C24_Witness ==
    /\ op = "walk"
    /\ pc = "fs_save"
    /\ mode = "full"
    /\ Invalidated
    /\ \E q \in Paths : fileIndex[q] # NoEntry /\ ~Exists(remote, q)

\* ------------------------------------------------------------------- C25

\* The paths detectChanges reports changed on remote R.
ReportedPaths(R, idx, dm) ==
    { c.path : c \in DetectChanges(R, idx, dm, NoFailure).changes }

\* The remote holds at p what the index holds at p, or neither holds p.
RestoredAt(R, idx, p) ==
    IF Exists(R, p)
        THEN idx[p] # NoEntry /\ ~IsModified(idx[p], StatModel(R, p))
        ELSE idx[p] = NoEntry

\* The server advanced the mtime of every directory above each path it changed.
MtimesAdvance(ms) == \A i \in 1..Len(ms) : ms[i].touched = Ancestors(ms[i].path)

\* C25: for a fixed index that matched the server, and a mutation sequence
\* lengthened by one mutation, every path detectChanges reports after the
\* shorter sequence it reports after the longer one too, unless the longer
\* one has put that path back to its indexed state.
C25_MonotoneDetection ==
    [][(pc = "idle" /\ remote' # remote /\ inSync /\ ~NeedFullScan(dirMtime)
            /\ MtimesAdvance(muts'))
        => \A p \in ReportedPaths(remote, fileIndex, dirMtime) :
              \/ p \in ReportedPaths(remote', fileIndex, dirMtime)
              \/ RestoredAt(remote', fileIndex, p)]_vars

\* ------------------------------------------------------------------- C26

\* The records the SyncProgress store may hold under 'current': none, the one
\* fullScan saves, or one of another phase.
ProgressRecords ==
    {NoEntry} \cup { [ScanningProgress EXCEPT !.phase = ph] : ph \in {"scanning", "syncing"} }

\* SyncProgressStore.save / clear called between two operations of the
\* driver: any record is left under 'current'.
LeaveProgress ==
    /\ pc = "idle"
    /\ progress' \in ProgressRecords \ {progress}
    /\ UNCHANGED << serverVars, fileIndex, dirMtime, pc, op, mode, changes, changedDirs,
                    calls, scanQueue, scanMtimes, muts, prevWalk, quiet, inSync, strays,
                    fails, pending, fan, batch, wide, tab, pager >>

\* The dir-mtime cache a walk() leaves when it runs to its end without error.
WalkDirMtime(R, idx, dm) ==
    IF IsFirstSync(idx) \/ NeedFullScan(dm)
        THEN FreshDirMtimeCache(R)
        ELSE UpdateDirMtimeCache(R, dm, DetectChanges(R, idx, dm, NoFailure).changes, {})

\* The PROPFINDs a full scan issues: one scanDirRecursive call per directory.
FullScanCalls(R) == { <<"scan", d>> : d \in CachedDirs(FreshDirMtimeCache(R)) }

\* The PROPFINDs a walk() issues when it runs to its end without error.
WalkCalls(R, idx, dm) ==
    IF IsFirstSync(idx) \/ NeedFullScan(dm)
        THEN FullScanCalls(R)
        ELSE LET r == DetectChanges(R, idx, dm, NoFailure)
             IN  r.calls \cup { <<"restat", d>> : d \in AffectedDirs(r.changes) }

\* walk() begins; what the file index, the dir-mtime cache and the remote
\* make it do is noted, the progress record left out.
WalkStartAdvisory ==
    /\ WalkStartCore
    /\ pending' = [kind |-> "walk", remote |-> remote, dropped |-> FALSE,
                   index |-> WalkResult(remote, fileIndex, dirMtime),
                   dirMtime |-> WalkDirMtime(remote, fileIndex, dirMtime),
                   calls |-> WalkCalls(remote, fileIndex, dirMtime)]

\* The driver used on a namespace whose progress record is written from
\* outside between its operations.
NextAdv ==
    \/ MutateIdle
    \/ LeaveProgress
    \/ WalkStartAdvisory
    \/ DetectStep
    \/ ApplyFileIndex
    \/ ApplyDirMtimeStep
    \/ FullScanSave
    \/ FullScanClearIndex
    \/ FullScanClearDirMtime
    \/ \E d \in AllPaths : ScanDir(d)
    \/ FullScanSaveMtimes
    \/ FullScanDone
    \/ Return
    \/ ClearIndex
    \/ RebuildIndex

SpecAdv == Init /\ [][NextAdv]_vars

FullListing(idx) ==
    { [path |-> SubSeq(idx[p].path, Len(Base) + 1, Len(idx[p].path)),
       isDir |-> idx[p].isDir, mtime |-> idx[p].mtime, size |-> idx[p].size] :
        p \in { q \in IndexedPaths(idx) : IsUnder(idx[q].path, Base) } }

\* C27: iterateAll invokes the callback on every FileEntry of the store while
\* the callback has not returned false -- the callback of getFromIndex never
\* does -- so the listing walk() returns covers every indexed entry under
\* remoteBaseDir.
C27_IterateAllVisitsAll ==
    WalkReturning =>
        /\ { IterateAll(fileIndex)[i] : i \in 1..Len(IterateAll(fileIndex)) }
                = IndexedPaths(fileIndex)
        /\ GetFromIndex(fileIndex) = FullListing(fileIndex)

\* ------------------------------------------------------------------- C28

\* C28: in the batchSet / batchDelete of the file index and in the batchSet
\* of the dir-mtime cache, at most 1000 record writes are in flight at any
\* moment, and when the call returns every record of the batch is written.
C28_BoundedInFlight ==
    batch # NoBatch =>
        /\ batch.issued - batch.written <= 1000
        /\ batch.returned => batch.written = batch.length

\* ------------------------------------------------------------------- C29

\* A step of clearIndex(): the driver stays idle, and neither the server nor
\* a call left behind has moved.
ClearIndexStep ==
    /\ pc = "idle"
    /\ pc' = "idle"
    /\ remote' = remote
    /\ strays' = strays
    /\ << fileIndex, dirMtime, progress, prevWalk, inSync >>'
            # << fileIndex, dirMtime, progress, prevWalk, inSync >>

\* C29: clearIndex() leaves the file index, the dir-mtime cache and the
\* progress record empty, getStats() then gives {0, 0, false}, and a walk()
\* that finds the stores so performs a full scan (at once, or through
\* needFullScan when a call left behind has written to the file index since).
ClearIndexEmpties ==
    /\ ClearIndexStep =>
          /\ fileIndex' = EmptyFileIndex
          /\ dirMtime' = EmptyDirMtime
          /\ progress' = NoEntry
          /\ GetStats(fileIndex') = [fileCount |-> 0, dirCount |-> 0, hasIndex |-> FALSE]
    /\ (pc = "idle" /\ op' = "walk" /\ fileIndex = EmptyFileIndex) =>
          pc' = "fs_save" /\ mode' = "full"
    /\ (DetectReturns /\ op = "walk" /\ dirMtime = EmptyDirMtime) =>
          pc' = "fs_save" /\ mode' = "full"

C29_ClearIndex == [][ClearIndexEmpties]_vars

\* clearIndex() has run after a full scan of a non-empty tree was rejected:
\* a call of that scan is still pending, yet the stores and the progress
\* record the scan left are empty.
C29_Witness ==
    /\ pc = "idle"
    /\ strays # {}
    /\ Exists(remote, <<"base", "a">>)
    /\ fileIndex = EmptyFileIndex
    /\ dirMtime = EmptyDirMtime
    /\ progress = NoEntry

\* ------------------------------------------------------------------- C30

\* C30: the diff of a changed directory, L its listing and K all its FileEntry
\* children however many: `added` exactly for the paths of L not in K,
\* `deleted` exactly for those of K not in L, `modified` exactly for those in
\* both whose isDir differs or, not directories, whose mtime or size differs,
\* and each path at most once.
C30_FileLevelDiff ==
    (wide # NoWide /\ wide.scanned /\ ~wide.applied) =>
        LET L == wide.listing
            K == wide.cached
            Of(type) == { c.path : c \in { x \in wide.diff : x.type = type } }
        IN  /\ Of("added") = DOMAIN L \ DOMAIN K
            /\ Of("deleted") = DOMAIN K \ DOMAIN L
            /\ Of("modified") =
                    { p \in DOMAIN L \cap DOMAIN K :
                        \/ L[p].isDir # K[p].isDir
                        \/ ~L[p].isDir /\ (L[p].mtime # K[p].mtime \/ L[p].size # K[p].size) }
            /\ \A c, e \in wide.diff : c.path = e.path => c = e

\* ------------------------------------------------------------------ C31

\* The step of walk() in which updateDirMtimeCache(changes) runs to its end.
UpdateDirMtimeCacheStep == pc = "apply_dirm" /\ pc' = "list"

\* The parents of the changed paths whose depth-0 PROPFIND answered in that
\* step.
RestatSucceeded ==
    { d \in AllPaths :
        /\ \E c \in changes : Dirname(c.path) = d
        /\ Exists(remote, d)
        /\ d \notin fails'.restat }

UpdateDirMtimeCacheFrame ==
    UpdateDirMtimeCacheStep =>
        /\ \A d \in RestatSucceeded :
                dirMtime'[d] = [kind |-> "entry", path |-> d,
                                mtime |-> remote[d].mtime, childCount |-> 0]
        /\ \A d \in AllPaths \ RestatSucceeded : dirMtime'[d] = dirMtime[d]
        /\ fileIndex' = fileIndex

\* C31: updateDirMtimeCache(changes) writes a DirMtimeEntry exactly for the
\* parents of changed paths whose depth-0 PROPFIND succeeds, with the mtime
\* just returned and childCount 0; the entry of a parent whose PROPFIND fails
\* and every other entry, that of a directory reported deleted included, is
\* left as it was, and the file index is not written.
C31_UpdateDirMtimeCacheFrame == [][UpdateDirMtimeCacheFrame]_vars

\* updateDirMtimeCache has returned after one parent's PROPFIND failed and
\* another's succeeded: the second has its fresh record, the first has not.
C31_Witness ==
    /\ pc = "list"
    /\ mode = "incr"
    /\ \E d \in fails.restat :
            /\ d \in AffectedDirs(changes)
            /\ dirMtime[d] # NoEntry
            /\ dirMtime[d].mtime # remote[d].mtime
    /\ \E d \in AffectedDirs(changes) \ fails.restat :
            dirMtime[d] = DirMtimeEntry(d, remote[d].mtime, 0)

\* ------------------------------------------------------------------ C32

\* The directories whose cached mtime is the one the server holds now.
CachedAsCurrent ==
    { d \in AllPaths :
        /\ IsDirAt(remote, d)
        /\ dirMtime[d] # NoEntry
        /\ dirMtime[d].mtime = remote[d].mtime }

\* C32 (cache coherence under concurrent remote mutation): at the end of
\* every walk(), every directory whose DirMtimeEntry carries the mtime the
\* server holds now has exactly the server's children as FileEntry children,
\* also when the server changes the directory between the depth-1 listing of
\* its diff and the depth-0 PROPFIND of updateDirMtimeCache.
C32_CacheCoherence ==
    WalkReturning =>
        \A d \in CachedAsCurrent :
            IndexedChildren(fileIndex, d) = ChildrenOf(remote, d)

\* ------------------------------------------------------------------ C33

\* walk() took the detector's path and is about to return.
IncrementalWalkReturning == WalkReturning /\ mode \in {"incr", "quiet"}

\* C33 (every changed directory gets its cached mtime refreshed): at the end
\* of a walk() that took the incremental path without transport error, every
\* directory the detector found changed and the server still holds has a
\* DirMtimeEntry with the server's current mtime, also when its file-level
\* diff was empty or only its descendants changed.
C33_ChangedDirsRefreshed ==
    IncrementalWalkReturning =>
        \A d \in changedDirs :
            IsDirAt(remote, d) =>
                dirMtime[d] # NoEntry /\ dirMtime[d].mtime = remote[d].mtime

\* ------------------------------------------------------------------ C34

\* The caller drops walk() while its full scan runs: between two store
\* calls, inside a batchSet of the file index, or inside the final batchSet
\* of the directory mtimes.
DropFullScan ==
    /\ mode = "full"
    /\ (DropBetween \/ DropInScanBatch \/ DropInSaveMtimes)

\* walk() on a server that changes between calls, with full scans that the
\* caller drops and full scans whose PROPFINDs fail.
NextAbort ==
    \/ MutateIdle
    \/ WalkStartTracked
    \/ DetectStep
    \/ ApplyFileIndex
    \/ ApplyDirMtimeStep
    \/ FullScanSave
    \/ FullScanClearIndex
    \/ FullScanClearDirMtime
    \/ \E d \in AllPaths : ScanDir(d)
    \/ FullScanSaveMtimes
    \/ FullScanDone
    \/ Return
    \/ DropFullScan
    \/ \E d \in AllPaths : ScanFails(d)
    \/ \E d \in AllPaths : StrayScan(d)

SpecAbort == Init /\ [][NextAbort]_vars

\* The step in which a full scan ends before its time: a PROPFIND of
\* scanDirRecursive throws, or the caller drops the operation.
FullScanAborted ==
    /\ mode = "full"
    /\ pc \in {"fs_save", "fs_clear_index", "fs_clear_dirm", "fs_scan", "fs_progress"}
    /\ pc' = "idle"

\* The next walk() goes to the full scan: the file index is empty, or the
\* detector finds no cached directory mtime.
NextWalkFullScans == IsFirstSync(fileIndex') \/ NeedFullScan(dirMtime')

\* C34 as stated (a failed full scan is never mistaken for a complete one):
\* whenever a full scan is aborted by a transport error or abandoned, the
\* dir-mtime cache is empty and the next walk() performs a full scan.
C34_FailedFullScan ==
    [][FullScanAborted => dirMtime' = EmptyDirMtime /\ NextWalkFullScans]_vars

\* The dir-mtime records left behind are records of a complete scan, next to
\* a file index that holds every directory's children.
OnlyCompleteRecords ==
    /\ fileIndex' = FullScanIndex(remote)
    /\ \A d \in CachedDirs(dirMtime') : dirMtime'[d] = FreshDirMtimeCache(remote)[d]

\* C34 (amended): a full scan aborted or abandoned while directories are
\* still to be enumerated leaves the dir-mtime cache empty; one abandoned at
\* any point leaves either stores that send the next walk() to the full scan,
\* or DirMtimeEntry records of a scan that had enumerated every directory and
\* written its children.
C34_FailedFullScanNotComplete ==
    [][FullScanAborted =>
          /\ (pc = "fs_scan" /\ scanQueue # {}) => dirMtime' = EmptyDirMtime
          /\ NextWalkFullScans \/ OnlyCompleteRecords]_vars

\* A full scan was dropped inside its final dirMtimeStore.batchSet: some
\* directories have their record, others have not, the progress record of the
\* scan is still there and the file index is complete.
C34_Witness ==
    /\ pc = "idle"
    /\ progress # NoEntry
    /\ pending # NoPending
    /\ pending.dropped
    /\ CachedDirs(dirMtime) # {}
    /\ CachedDirs(dirMtime) # CachedDirs(FreshDirMtimeCache(remote))
    /\ fileIndex = FullScanIndex(remote)

\* ------------------------------------------------------------------ C35

\* The buttons of the settings tab whose handlers clear the stores.
ClearButtons == {"rebuildIndex", "clearIndex"}

\* onClick of either button, first store call: fileIndex.clear()
SettingsClearFileIndex(button) ==
    /\ tab = NoClick
    /\ pager = NoPager
    /\ tab' = button
    /\ fileIndex' = EmptyFileIndex
    /\ UNCHANGED << serverVars, dirMtime, progress, pc, op, mode, changes, changedDirs,
                    calls, scanQueue, scanMtimes, muts, prevWalk, quiet, inSync,
                    strays, fails, pending, fan, batch, wide, pager >>

\* onClick of either button, second store call: dirMtimeStore.clear(); the
\* handler then shows its notice and returns. The progress store is not
\* touched and no scan is started.
SettingsClearDirMtime ==
    /\ tab # NoClick
    /\ tab' = NoClick
    /\ dirMtime' = EmptyDirMtime
    /\ UNCHANGED << serverVars, fileIndex, progress, pc, op, mode, changes, changedDirs,
                    calls, scanQueue, scanMtimes, muts, prevWalk, quiet, inSync,
                    strays, fails, pending, fan, batch, wide, pager >>

\* walk() is called again and again on a server that changes between calls,
\* while the user clicks the buttons of the settings tab at any moment.
NextTab ==
    \/ MutateIdle
    \/ WalkSteps
    \/ \E button \in ClearButtons : SettingsClearFileIndex(button)
    \/ SettingsClearDirMtime

SpecTab == Init /\ [][NextTab]_vars

\* No walk() is running and no handler of the settings tab is.
BothFinished == pc = "idle" /\ tab = NoClick

\* C35 (settings-tab clear racing a scan): once the handler of 'clear index'
\* or 'rebuild index' and the walk() it interleaved with have both finished,
\* no directory whose DirMtimeEntry carries the server's mtime has a child on
\* the server that is missing from the file index. (Stated for a file index
\* that is not empty: on an empty one the next walk() full-scans whatever the
\* dir-mtime cache holds.)
C35_ClearRacingScan ==
    (BothFinished /\ ~IsFirstSync(fileIndex)) =>
        \A d \in CachedAsCurrent : ChildrenOf(remote, d) \subseteq IndexedPaths(fileIndex)

\* ------------------------------------------------------------------ C36

\* The caller drops the running operation at one of its awaits, between two
\* store calls: its locals are gone, the stores stay as they are.
Abandon ==
    /\ pc # "idle"
    /\ pc' = "idle"
    /\ op' = "none"
    /\ mode' = "none"
    /\ changes' = {}
    /\ changedDirs' = {}
    /\ calls' = {}
    /\ scanQueue' = {}
    /\ scanMtimes' = {}
    /\ muts' = << >>
    /\ quiet' = FALSE
    /\ prevWalk' = FALSE
    /\ inSync' = FALSE
    /\ fails' = NoFailure
    /\ UNCHANGED << serverVars, fileIndex, dirMtime, progress, strays, pending, fan, batch, wide, tab, pager >>

\* The driver used by one caller at a time, on a network where the PROPFINDs
\* of a full scan may fail, by a caller that may drop an operation.
NextSeq ==
    \/ Next
    \/ \E d \in AllPaths : ScanFails(d)
    \/ \E d \in AllPaths : StrayScan(d)
    \/ Abandon

SpecSeq == Init /\ [][NextSeq]_vars

\* A step that stores a SyncProgress record, and one that removes it.
ProgressWritten == progress' # progress /\ progress' # NoEntry

ProgressRemoved == progress # NoEntry /\ progress' = NoEntry

\* The record is written when the driver's fullScan starts, as a `scanning`
\* record with processedCount 0; it is removed when that scan has succeeded,
\* or by clearIndex.
WrittenAndRemoved ==
    /\ ProgressWritten =>
            /\ pc = "fs_save"
            /\ progress'.phase = "scanning"
            /\ progress'.processedCount = 0
    /\ ProgressRemoved =>
            \/ pc = "fs_progress" /\ pc' = "list"
            \/ pc = "idle"
    /\ progress' # NoEntry => progress'.phase = "scanning"

\* C36 as stated (progress-record lifecycle): a SyncProgress record is
\* written only when the driver starts a full scan and removed only when that
\* scan succeeds or by clearIndex; after every successfully completed walk()
\* or rebuildIndex() no record exists, and no record ever has a phase other
\* than `scanning`.
C36_ProgressLifecycle ==
    [][WrittenAndRemoved /\ (pc' = "list" => progress' = NoEntry)]_vars

\* C36 (amended): the same, with no record left after every successfully
\* completed rebuildIndex() and every walk() that took the full scan; a
\* walk() that takes the detector's path leaves the record as it found it.
C36_ProgressLifecycleOfFullScans ==
    [][/\ WrittenAndRemoved
       /\ (pc' = "list" /\ mode' = "full") => progress' = NoEntry
       /\ (mode \in {"none", "quiet", "incr"} /\ mode' \in {"none", "quiet", "incr"})
             => (progress' = progress \/ (pc = "idle" /\ pc' = "idle"))]_vars

\* A walk() that took the detector's path has applied its changes and is
\* about to return, and the record of an earlier full scan, dropped before it
\* removed it, is still there.
C36_Witness ==
    /\ WalkReturning
    /\ mode = "incr"
    /\ progress = ScanningProgress

\* ------------------------------------------------------------------ C37

\* The most children of the listed directory, the most entries the server
\* puts on one page, and the most 503 answers in one call.
MaxKids == 4

MaxPageSize == 3

Max503 == 2

\* The <response> of the directory itself; its children are 1, 2, ...
Self == 0

\* The children of the directory, k of them, in the order the server lists them.
Kids(k) == [i \in 1..k |-> i]

\* The answer of the server to PROPFIND depth 1 on the directory, as pages
\* linked by rel="next": the first page opens with the directory itself;
\* whether a later page repeats it is up to the server.
PagesOf(k, size, repeatsSelf) ==
    LET n == IF k = 0 THEN 1 ELSE (k + size - 1) \div size
        Slice(j) == SubSeq(Kids(k), (j - 1) * size + 1,
                           IF j * size < k THEN j * size ELSE k)
    IN  [j \in 1..n |->
            IF j = 1 \/ repeatsSelf THEN <<Self>> \o Slice(j) ELSE Slice(j)]

\* items.slice(1)
SliceOne(items) == IF items = << >> THEN << >> ELSE Tail(items)

\* getDirectoryContents is called: contents = [], currentUrl the directory
InitPager ==
    /\ remote = [p \in AllPaths |-> IF p = Base THEN DirNode(1) ELSE NoNode]
    /\ clock = 1
    /\ fileIndex = EmptyFileIndex
    /\ dirMtime = EmptyDirMtime
    /\ progress = NoEntry
    /\ pc = "idle"
    /\ op = "none"
    /\ mode = "none"
    /\ changes = {}
    /\ changedDirs = {}
    /\ calls = {}
    /\ scanQueue = {}
    /\ scanMtimes = {}
    /\ muts = << >>
    /\ prevWalk = FALSE
    /\ quiet = FALSE
    /\ inSync = FALSE
    /\ strays = {}
    /\ fails = NoFailure
    /\ pending = NoPending
    /\ fan = NoFan
    /\ batch = NoBatch
    /\ wide = NoWide
    /\ tab = NoClick
    /\ \E k \in 0..MaxKids, size \in 1..MaxPageSize, repeatsSelf \in BOOLEAN :
          pager = [kind |-> "pager", kids |-> k, pages |-> PagesOf(k, size, repeatsSelf),
                   currentUrl |-> 1, contents |-> << >>, retries |-> 0,
                   status |-> "running"]

nonPagerVars == << remote, clock, fileIndex, dirMtime, progress, pc, op, mode, changes,
                   changedDirs, calls, scanQueue, scanMtimes, muts, prevWalk, quiet,
                   inSync, strays, fails, pending, fan, batch, wide, tab >>

\* One turn of the loop in which requestUrl answers: the entries of the page
\* but the first are pushed; without a next link the loop breaks and the
\* contents are returned, with one the next page becomes currentUrl.
PageRead ==
    /\ pager # NoPager
    /\ pager.status = "running"
    /\ LET page == pager.pages[pager.currentUrl]
           last == pager.currentUrl = Len(pager.pages)
       IN  pager' = [pager EXCEPT
                        !.contents = pager.contents \o SliceOne(page),
                        !.currentUrl = IF last THEN @ ELSE @ + 1,
                        !.status = IF last THEN "returned" ELSE "running"]
    /\ UNCHANGED nonPagerVars

\* One turn in which requestUrl rejects with HTTP 503: sleep, then the same
\* currentUrl is requested again.
Page503 ==
    /\ pager # NoPager
    /\ pager.status = "running"
    /\ pager.retries < Max503
    /\ pager' = [pager EXCEPT !.retries = @ + 1]
    /\ UNCHANGED nonPagerVars

\* One turn in which requestUrl rejects with another error: it is thrown.
PageThrows ==
    /\ pager # NoPager
    /\ pager.status = "running"
    /\ pager' = [pager EXCEPT !.status = "thrown"]
    /\ UNCHANGED nonPagerVars

NextPager ==
    \/ PageRead
    \/ Page503
    \/ PageThrows

SpecPager == InitPager /\ [][NextPager]_vars

\* C37 (paginated listing): when getDirectoryContents returns, its contents
\* are the children of the directory, each exactly once, and not the
\* directory itself, over however many pages the answer was split and
\* whatever 503 answers were retried on the way.
C37_PaginatedListing ==
    (pager # NoPager /\ pager.status = "returned") =>
        pager.contents = Kids(pager.kids)

====
